---- MODULE Spec2Model ----
(***************************************************************************)
(* A model of the concurrent pagination engine of fetch-student-data:      *)
(*   - the retrieval driver FetchEnrollmentsFiltered and the batch         *)
(*     orchestrator processBatchEnrollmentsFiltered with its worker pool   *)
(*     (services/enrollments_service.go),                                  *)
(*   - the sink's replace operation OverwriteSheetData                     *)
(*     (services/sheet_writer.go),                                         *)
(*   - the token cache GetAuthToken and the retrying MakeRequest it runs   *)
(*     while holding muAuth.                                               *)
(* SpecRun is one run of the driver; SpecAuth is a set of goroutines       *)
(* calling GetAuthToken on one JacadClient.                                *)
(***************************************************************************)
EXTENDS Integers, Sequences, FiniteSets, TLC

\* ------------------------------------------------------------------ bounds
\* Largest totalPages the upstream reports for page 0.
MaxTotalPages == 4
\* The totalElements a non-empty upstream collection reports for page 0.
MaxElements == 5
\* Largest configured MaxPagesPerBatch.
MaxBatch == 2
\* Largest configured MaxParallelRequests.
MaxWorkers == 2
\* Config.PageSize, scaled down.
PageSize == 2
\* Goroutines calling GetAuthToken.
NumCallers == 2
\* GetAuthToken calls made in one behaviour.
MaxCalls == 3
\* The last clock tick.
MaxTime == 3
\* Config.MaxRetries, scaled down.
MaxRetries == 1
\* The validity window GetAuthToken sets, time.Hour, in clock ticks of 30 minutes.
TokenTTL == 2
\* The largest Config.MaxRetries one MakeRequest call is explored with.
MaxReqRetries == 3
\* The largest Config.RetryDelay, in units of delay.
MaxDelay == 2

VARIABLES
    \* --- one run of FetchEnrollmentsFiltered
    cfg,            \* Config: MaxPagesPerBatch, MaxParallelRequests
    upstream,       \* the Page descriptor the API reports: totalPages, totalElements
    ctxDone,        \* ctx.Done() is closed (ctx.Err() != nil)
    dpc,            \* the driver goroutine's position
    p0res,          \* what FetchPage(0) returned
    result,         \* what FetchEnrollmentsFiltered returned
    allEnrollments, \* the driver's accumulator
    currentPage,    \* the driver's loop variable
    batchSize,      \* the driver's batch size
    rows,           \* the rows argument of OverwriteSheetData
    sheet,          \* the target sheet in the spreadsheet
    \* --- one call of processBatchEnrollmentsFiltered
    pagesToFetch,   \* the closed, buffered channel of page indices
    dataChan,       \* the buffered channel of page results
    errorCount,     \* the shared failure counter
    allData,        \* the merged records
    wpc,            \* each worker goroutine's position
    wpage,          \* each worker's pageNum
    wres,           \* what each worker's FetchPage returned
    \* --- history (what an instrumented transport and sink would record)
    fetchCount,     \* how many times FetchPage has been started for each page index
    okPages,        \* pages of the current batch whose FetchPage returned no error
    failedPages,    \* pages of the current batch whose FetchPage returned an error
    lateFetch,      \* pages whose FetchPage started after ctx was done
    batchLog,       \* one record per returned batch
    sinkLog,        \* the sink operations invoked, in order
    cancelledAt,    \* the driver position at which ctx was cancelled
    passedAtCancel, \* pages whose pre-fetch check had passed when ctx was cancelled
    \* --- goroutines calling GetAuthToken on one JacadClient
    now,            \* time.Now(), in clock ticks
    token,          \* c.token; 0 is the empty string
    tokenExpiry,    \* c.tokenExpiry
    muAuth,         \* the goroutine holding c.muAuth; 0 when unlocked
    apc,            \* each caller's position in GetAuthToken / MakeRequest
    attempt,        \* each caller's MakeRequest loop variable
    ncalls,         \* GetAuthToken calls made so far
    ret,            \* what each caller's last GetAuthToken call returned
    waited,         \* the token issued, and when, while the caller waited for muAuth
    nIssued,        \* tokens the auth endpoint has issued; the last one's number
    issuedAt,       \* when the last token was issued; -1 before the first
    nExchSince,     \* exchanges started since the last token was issued
    \* --- one call of MakeRequest
    mcfg,           \* Config: MaxRetries, RetryDelay
    mpc,            \* the call's position
    mattempt,       \* the loop variable attempt
    lastErr,        \* the local lastErr: the failed attempt it was built from
    mret,           \* what MakeRequest returned
    attemptLog,     \* one record per call of c.Client.Do, in order
    sleepLog,       \* one record per backoff sleep, in order
    mCancelAt,      \* where the call was when ctx was cancelled
    \* --- one operation of the GoogleSheetsWriter
    scfg,           \* the writer's retryMaxAttempts
    sop,            \* the operation called, with its headers and rows
    sexists,        \* whether the spreadsheet has the sheet
    spc,            \* the operation's position
    scall,          \* the remote call the operation is at
    sattempt,       \* executeSheetsCall's loop variable attempt
    slog,           \* one record per remote call made, in order
    sret,           \* what the operation returned
    \* --- data requests made with the cached token
    rejected,       \* the first token a data request was answered 401 for, and whose
    \* --- concurrent calls of EnsureSheetExists
    epc,            \* each call's position
    eattempt,       \* each call's executeSheetsCall attempt
    eret,           \* what each call returned
    ecreates,       \* the create requests issued so far
    etransient,     \* whether the remote service has failed
    \* --- the fetch handler
    hpc,            \* the handler's position
    hgo,            \* the position of the goroutine that runs the fetch
    errChan,        \* the handler's result channel
    hrecv,          \* what the handler received from errChan
    hbranch,        \* the branch of the outer select the handler took
    hresp           \* the status the handler responded with

runVars == <<cfg, upstream, ctxDone, dpc, p0res, result, allEnrollments, currentPage,
             batchSize, rows, sheet, pagesToFetch, dataChan, errorCount, allData,
             wpc, wpage, wres, fetchCount, okPages, failedPages, lateFetch, batchLog,
             sinkLog, cancelledAt, passedAtCancel>>

authVars == <<now, token, tokenExpiry, muAuth, apc, attempt, ncalls, ret, waited,
              nIssued, issuedAt, nExchSince>>

reqVars == <<mcfg, mpc, mattempt, lastErr, mret, attemptLog, sleepLog, mCancelAt>>

sheetsVars == <<scfg, sop, sexists, spc, scall, sattempt, slog, sret>>

dataVars == <<rejected>>

ensureVars == <<epc, eattempt, eret, ecreates, etransient>>

handlerVars == <<hpc, hgo, errChan, hrecv, hbranch, hresp>>

sideVars == <<dataVars, ensureVars, handlerVars>>

vars == <<runVars, authVars, reqVars, sheetsVars, sideVars>>

Workers == 1..MaxWorkers
Callers == 1..NumCallers

\* Every page index a run can ask for: the last batch may reach past totalPages.
PageIndices == 0..(MaxTotalPages + MaxBatch)

\* ------------------------------------------------------------ upstream data
\* The number of records the upstream holds on page p.
ElemCount(p) ==
    LET left == upstream.totalElements - p * PageSize
    IN  IF left <= 0 THEN 0 ELSE IF left > PageSize THEN PageSize ELSE left

\* The elements of page p, in the order of the response.
Elements(p) == [i \in 1..ElemCount(p) |-> <<p, i>>]

RECURSIVE Flatten_Reversed(_)
\* Mutant: the drain loop appends each page's records in reverse.
Flatten_Reversed(ch) ==
    IF ch = <<>> THEN <<>>
    ELSE [i \in 1..Len(Head(ch)) |-> Head(ch)[Len(Head(ch)) + 1 - i]]
             \o Flatten_Reversed(Tail(ch))

RECURSIVE Flatten(_)
\* The drain loop: the non-empty page results, appended in channel order.
Flatten(ch) ==
    IF ch = <<>> THEN <<>>
    ELSE IF Len(Head(ch)) > 0 THEN Head(ch) \o Flatten(Tail(ch))
    ELSE Flatten(Tail(ch))

Range(s) == {s[i] : i \in 1..Len(s)}

Min(a, b) == IF a < b THEN a ELSE b

\* ------------------------------------------------------------------ the run
NoResult == [kind |-> "none", cancel |-> FALSE]

\* writeAllEnrollmentsToSheet's field mapping of one record into one row.
ToRow(e) == <<"row", e[1], e[2]>>

\* OverwriteSheetData's header row (the driver always passes 13 headers).
HeaderRow == <<"hdr", 0, 0>>

NoWait == [tok |-> 0, at |-> -1]
NoReturn == [tok |-> 0, err |-> "none", exchanged |-> FALSE, at |-> 0, waited |-> NoWait,
             issued |-> -1, last |-> 0]

\* lastErr before any attempt has failed (nil).
NoAttemptErr == [out |-> -1, attempt |-> -1, byCtx |-> FALSE]
\* MakeRequest has not returned.
NoReqReturn == [kind |-> "none", out |-> -1, lastErr |-> NoAttemptErr, wrapsCtx |-> FALSE]
NeverCancelled == [pc |-> "never", attempts |-> 0, sleeps |-> 0]

\* No MakeRequest call is being followed.
\* Goroutines calling EnsureSheetExists at the same time.
NumEnsureCalls == 2

EnsureCallers == 1..NumEnsureCalls

\* No data request has been answered 401.
NoRejection == [tok |-> 0, by |-> 0]
DataIdle == rejected = NoRejection

\* No call of EnsureSheetExists has started.
EnsureIdle ==
    /\ epc = [c \in EnsureCallers |-> "get"]
    /\ eattempt = [c \in EnsureCallers |-> 0]
    /\ eret = [c \in EnsureCallers |-> "none"]
    /\ ecreates = 0
    /\ etransient = FALSE

\* The handler has made errChan and started the goroutine, and is at its select.
HandlerAtSelect ==
    /\ hpc = "select"
    /\ hgo = "running"
    /\ errChan = <<>>
    /\ hrecv = "none"
    /\ hbranch = "none"
    /\ hresp = 0

SideIdle == DataIdle /\ EnsureIdle /\ HandlerAtSelect

\* No operation of the writer is in progress.
SheetsIdle ==
    /\ scfg = [retryMaxAttempts |-> 0]
    /\ sop = [name |-> "none", headers |-> 0, rows |-> 0]
    /\ sexists = FALSE
    /\ spc = "idle"
    /\ scall = "none"
    /\ sattempt = 0
    /\ slog = <<>>
    /\ sret = "none"

ReqIdle ==
    /\ mcfg = [MaxRetries |-> 0, RetryDelay |-> 1]
    /\ mpc = "idle"
    /\ mattempt = 0
    /\ lastErr = NoAttemptErr
    /\ mret = NoReqReturn
    /\ attemptLog = <<>>
    /\ sleepLog = <<>>
    /\ mCancelAt = NeverCancelled

\* A JacadClient as NewJacadClient leaves it, with no GetAuthToken call made.
InitClient ==
    /\ now = 0
    /\ token = 0
    /\ tokenExpiry = 0
    /\ muAuth = 0
    /\ apc = [c \in Callers |-> "idle"]
    /\ attempt = [c \in Callers |-> 0]
    /\ ncalls = 0
    /\ ret = [c \in Callers |-> NoReturn]
    /\ waited = [c \in Callers |-> NoWait]
    /\ nIssued = 0
    /\ issuedAt = -1
    /\ nExchSince = 0

InitRun ==
    /\ InitClient
    /\ ReqIdle
    /\ SheetsIdle
    /\ SideIdle
    /\ cfg \in [MaxPagesPerBatch : 1..MaxBatch, MaxParallelRequests : 0..MaxWorkers]
    /\ upstream \in [totalPages : 0..MaxTotalPages, totalElements : {0, MaxElements}]
    /\ ctxDone = FALSE
    /\ dpc = "start"
    /\ p0res = "none"
    /\ result = NoResult
    /\ allEnrollments = <<>>
    /\ currentPage = 0
    /\ batchSize = 0
    /\ rows = <<>>
    /\ sheet = [exists |-> FALSE, state |-> "stale", rows |-> <<>>]
    /\ pagesToFetch = <<>>
    /\ dataChan = <<>>
    /\ errorCount = 0
    /\ allData = <<>>
    /\ wpc = [w \in Workers |-> "none"]
    /\ wpage = [w \in Workers |-> 0]
    /\ wres = [w \in Workers |-> "none"]
    /\ fetchCount = [p \in PageIndices |-> 0]
    /\ okPages = {}
    /\ failedPages = {}
    /\ lateFetch = {}
    /\ batchLog = <<>>
    /\ sinkLog = <<>>
    /\ cancelledAt = "never"
    /\ passedAtCancel = {}

batchVars == <<pagesToFetch, dataChan, errorCount, allData, wpc, wpage, wres>>
driverVars == <<p0res, result, allEnrollments, currentPage, batchSize, rows, sheet>>
histVars == <<okPages, failedPages, lateFetch, batchLog, sinkLog>>
envVars == <<cfg, upstream>>
cancelVars == <<ctxDone, cancelledAt, passedAtCancel>>

\* The context's deadline expires or the caller aborts: ctx.Done() is closed.
Cancel ==
    /\ ~ctxDone
    /\ dpc # "done"
    /\ ctxDone' = TRUE
    /\ cancelledAt' = dpc
    /\ passedAtCancel' = {wpage[w] : w \in {v \in Workers : wpc[v] = "call"}}
    /\ UNCHANGED <<sideVars, sheetsVars, reqVars, authVars, envVars, dpc, driverVars, batchVars, fetchCount, histVars>>

\* FetchEnrollmentsFiltered calls FetchPage for page 0.
DriverStart ==
    /\ dpc = "start"
    /\ dpc' = "page0"
    /\ fetchCount' = [fetchCount EXCEPT ![0] = @ + 1]
    /\ UNCHANGED <<sideVars, sheetsVars, reqVars, authVars, envVars, cancelVars, driverVars, batchVars, histVars>>

\* FetchPage(0) returns: records and a descriptor, records without a descriptor,
\* or an error.
Page0Return ==
    /\ dpc = "page0"
    /\ \E out \in {"ok", "nopage", "err"} : p0res' = out
    /\ dpc' = "page0ret"
    /\ UNCHANGED <<sideVars, sheetsVars, reqVars, authVars, envVars, cancelVars, result, allEnrollments, currentPage, batchSize,
                   rows, sheet, batchVars, fetchCount, histVars>>

\* Mutant: the short-circuit taken only when both counts are zero.
ZeroCase_Both(tp, te) == tp = 0 /\ te = 0

\* The test that short-circuits an empty collection.
ZeroCase(tp, te) == tp = 0 \/ te = 0

\* Mutant: the driver plans batches of one page.
PlanBatchSize_Single(tp, maxPerBatch) == 1

\* The batch size the driver plans with.
PlanBatchSize(tp, maxPerBatch) ==
    LET remainingPages == tp - 1
    IN  IF remainingPages < maxPerBatch THEN remainingPages ELSE maxPerBatch

\* The driver's handling of what FetchPage(0) returned.
DriverAfterPage0 ==
    /\ dpc = "page0ret"
    /\ \/ /\ p0res = "err"
          /\ result' = [kind |-> IF ctxDone THEN "cancelled" ELSE "page0_failed",
                        cancel |-> ctxDone]
          /\ dpc' = "done"
          /\ UNCHANGED <<allEnrollments, currentPage, batchSize, rows, sinkLog>>
       \/ /\ p0res = "nopage"
          /\ result' = [kind |-> "no_page_info", cancel |-> FALSE]
          /\ dpc' = "done"
          /\ UNCHANGED <<allEnrollments, currentPage, batchSize, rows, sinkLog>>
       \/ /\ p0res = "ok"
          /\ ZeroCase(upstream.totalPages, upstream.totalElements)
          /\ rows' = <<>>
          /\ sinkLog' = Append(sinkLog, [op |-> "OverwriteSheetData", rows |-> <<>>])
          /\ dpc' = "ensure"
          /\ UNCHANGED <<result, allEnrollments, currentPage, batchSize>>
       \/ /\ p0res = "ok"
          /\ ~ZeroCase(upstream.totalPages, upstream.totalElements)
          /\ allEnrollments' = Elements(0)
          /\ IF upstream.totalPages > 1
             THEN /\ batchSize' = PlanBatchSize(upstream.totalPages, cfg.MaxPagesPerBatch)
                  /\ currentPage' = 1
                  /\ dpc' = "loop"
             ELSE /\ dpc' = "write"
                  /\ UNCHANGED <<batchSize, currentPage>>
          /\ UNCHANGED <<result, rows, sinkLog>>
    /\ UNCHANGED <<sideVars, sheetsVars, reqVars, authVars, envVars, cancelVars, p0res, sheet, batchVars, fetchCount, okPages,
                   failedPages, lateFetch, batchLog>>

\* Mutant: the batch loop is never entered.
MorePages_Never(cur, tp) == FALSE

\* The condition of the batch loop.
MorePages(cur, tp) == cur < tp

\* The head of the batch loop: the loop condition and the cancellation check.
DriverLoop ==
    /\ dpc = "loop"
    /\ IF MorePages(currentPage, upstream.totalPages)
       THEN IF ctxDone
            THEN /\ result' = [kind |-> "cancelled", cancel |-> TRUE]
                 /\ dpc' = "done"
            ELSE /\ dpc' = "callbatch"
                 /\ UNCHANGED result
       ELSE /\ dpc' = "write"
            /\ UNCHANGED result
    /\ UNCHANGED <<sideVars, sheetsVars, reqVars, authVars, envVars, cancelVars, p0res, allEnrollments, currentPage, batchSize,
                   rows, sheet, batchVars, fetchCount, histVars>>

\* ---------------------------------------------------------------- the batch
\* Mutant: a batch with pages always gets at least one worker.
SpawnCount_AtLeastOne(cnt, maxParallel) ==
    IF cnt < maxParallel THEN cnt
    ELSE IF maxParallel < 1 /\ cnt >= 1 THEN 1
    ELSE maxParallel

\* Mutant: one worker per page, whatever the concurrency limit.
SpawnCount_PerPage(cnt, maxParallel) == cnt

\* The number of worker goroutines a batch of cnt pages spawns.
SpawnCount(cnt, maxParallel) == IF cnt < maxParallel THEN cnt ELSE maxParallel

\* Mutant: any failed page fails the batch.
BatchOutcome_AnyFailure(cancelled, ec, cnt, data) ==
    IF cancelled THEN [err |-> "cancelled", data |-> <<>>]
    ELSE IF ec > 0 THEN [err |-> "batchfailed", data |-> <<>>]
    ELSE [err |-> "none", data |-> data]

\* Mutant: the all-failed test is missing.
BatchOutcome_NoAllFailed(cancelled, ec, cnt, data) ==
    IF cancelled THEN [err |-> "cancelled", data |-> <<>>]
    ELSE [err |-> "none", data |-> data]

\* What processBatchEnrollmentsFiltered returns after the join and the drain.
BatchOutcome(cancelled, ec, cnt, data) ==
    IF cancelled THEN [err |-> "cancelled", data |-> <<>>]
    ELSE IF ec > 0 /\ ec = cnt /\ cnt > 0 THEN [err |-> "batchfailed", data |-> <<>>]
    ELSE [err |-> "none", data |-> data]

\* Mutant: the work queue starts one page late.
PageRange_Shifted(start, cnt) == [i \in 1..cnt |-> start + i]

\* The work queue of a batch: the indices start, start+1, ..., start+cnt-1.
PageRange(start, cnt) == [i \in 1..cnt |-> start + i - 1]

\* The driver calls processBatchEnrollmentsFiltered(currentPage, batchSize): the
\* work queue is filled and closed and the workers are spawned.
BatchStart ==
    /\ dpc = "callbatch"
    /\ pagesToFetch' = PageRange(currentPage, batchSize)
    /\ dataChan' = <<>>
    /\ errorCount' = 0
    /\ allData' = <<>>
    /\ wpc' = [w \in Workers |->
                 IF w <= SpawnCount(batchSize, cfg.MaxParallelRequests)
                 THEN "claim" ELSE "none"]
    /\ okPages' = {}
    /\ failedPages' = {}
    /\ dpc' = "wait"
    /\ UNCHANGED <<sideVars, sheetsVars, reqVars, authVars, envVars, cancelVars, driverVars, wpage, wres, fetchCount, lateFetch,
                   batchLog, sinkLog>>

\* for pageNum := range pagesToFetch: receive the next index, or leave the loop
\* when the closed channel is drained.
WorkerClaim(w) ==
    /\ dpc = "wait"
    /\ wpc[w] = "claim"
    /\ IF pagesToFetch # <<>>
       THEN /\ wpage' = [wpage EXCEPT ![w] = Head(pagesToFetch)]
            /\ pagesToFetch' = Tail(pagesToFetch)
            /\ wpc' = [wpc EXCEPT ![w] = "check"]
       ELSE /\ wpc' = [wpc EXCEPT ![w] = "exited"]
            /\ UNCHANGED <<wpage, pagesToFetch>>
    /\ UNCHANGED <<sideVars, sheetsVars, reqVars, authVars, envVars, cancelVars, dpc, driverVars, dataChan, errorCount, allData,
                   wres, fetchCount, histVars>>

\* Mutant: the worker does not test ctx.Done() before the fetch.
PassesCheck_Always(done) == TRUE

\* Whether a worker that holds a page goes on to fetch it.
PassesCheck(done) == ~done

\* The worker's non-blocking test of ctx.Done() before the fetch.
WorkerCheck(w) ==
    /\ dpc = "wait"
    /\ wpc[w] = "check"
    /\ wpc' = [wpc EXCEPT ![w] = IF PassesCheck(ctxDone) THEN "call" ELSE "exited"]
    /\ wpage' = [wpage EXCEPT ![w] = IF PassesCheck(ctxDone) THEN @ ELSE 0]
    /\ UNCHANGED <<sideVars, sheetsVars, reqVars, authVars, envVars, cancelVars, dpc, driverVars, pagesToFetch, dataChan,
                   errorCount, allData, wres, fetchCount, histVars>>

\* The worker calls FetchPage(pageNum).
WorkerFetchStart(w) ==
    /\ dpc = "wait"
    /\ wpc[w] = "call"
    /\ wpc' = [wpc EXCEPT ![w] = "fetching"]
    /\ fetchCount' = [fetchCount EXCEPT ![wpage[w]] = @ + 1]
    /\ lateFetch' = IF ctxDone THEN lateFetch \cup {wpage[w]} ELSE lateFetch
    /\ UNCHANGED <<sideVars, sheetsVars, reqVars, authVars, envVars, cancelVars, dpc, driverVars, pagesToFetch, dataChan,
                   errorCount, allData, wpage, wres, okPages, failedPages, batchLog,
                   sinkLog>>

\* FetchPage returns to the worker, with the page's elements or with an error.
WorkerFetchReturn(w) ==
    /\ dpc = "wait"
    /\ wpc[w] = "fetching"
    /\ \E out \in {"ok", "err"} :
         /\ wres' = [wres EXCEPT ![w] = out]
         /\ okPages' = IF out = "ok" THEN okPages \cup {wpage[w]} ELSE okPages
         /\ failedPages' = IF out = "err" THEN failedPages \cup {wpage[w]}
                           ELSE failedPages
    /\ wpc' = [wpc EXCEPT ![w] = "returned"]
    /\ UNCHANGED <<sideVars, sheetsVars, reqVars, authVars, envVars, cancelVars, dpc, driverVars, pagesToFetch, dataChan,
                   errorCount, allData, wpage, fetchCount, lateFetch, batchLog, sinkLog>>

\* Mutant: a failed page is counted even when the context is cancelled.
CountsAsFailure_Always(done) == TRUE

\* Whether a page whose FetchPage returned an error is counted.
CountsAsFailure(done) == ~done

\* The worker's handling of an error: counted unless ctx.Err() != nil; continue.
WorkerOnError(w) ==
    /\ dpc = "wait"
    /\ wpc[w] = "returned"
    /\ wres[w] = "err"
    /\ errorCount' = IF CountsAsFailure(ctxDone) THEN errorCount + 1 ELSE errorCount
    /\ wpc' = [wpc EXCEPT ![w] = "claim"]
    /\ wpage' = [wpage EXCEPT ![w] = 0]
    /\ wres' = [wres EXCEPT ![w] = "none"]
    /\ UNCHANGED <<sideVars, sheetsVars, reqVars, authVars, envVars, cancelVars, dpc, driverVars, pagesToFetch, dataChan,
                   allData, fetchCount, histVars>>

\* Mutant: dataChan is made without a buffer.
ChanCap_Unbuffered(cnt) == 0

\* The capacity dataChan is made with for a batch of cnt pages.
ChanCap(cnt) == cnt

\* The hand-off select, send case: dataChan has room for every page of the batch.
WorkerSend(w) ==
    /\ dpc = "wait"
    /\ wpc[w] = "returned"
    /\ wres[w] = "ok"
    /\ Len(dataChan) < ChanCap(batchSize)
    /\ dataChan' = Append(dataChan, Elements(wpage[w]))
    /\ wpc' = [wpc EXCEPT ![w] = "claim"]
    /\ wpage' = [wpage EXCEPT ![w] = 0]
    /\ wres' = [wres EXCEPT ![w] = "none"]
    /\ UNCHANGED <<sideVars, sheetsVars, reqVars, authVars, envVars, cancelVars, dpc, driverVars, pagesToFetch, errorCount,
                   allData, fetchCount, histVars>>

\* The hand-off select, ctx.Done() case: the worker returns without sending.
WorkerSendCancelled(w) ==
    /\ dpc = "wait"
    /\ wpc[w] = "returned"
    /\ wres[w] = "ok"
    /\ ctxDone
    /\ wpc' = [wpc EXCEPT ![w] = "exited"]
    /\ wpage' = [wpage EXCEPT ![w] = 0]
    /\ wres' = [wres EXCEPT ![w] = "none"]
    /\ UNCHANGED <<sideVars, sheetsVars, reqVars, authVars, envVars, cancelVars, dpc, driverVars, pagesToFetch, dataChan,
                   errorCount, allData, fetchCount, histVars>>

\* Mutant: the batch's records replace the accumulator instead of extending it.
Accumulate_Assign(acc, out) == IF out.err = "none" THEN out.data ELSE acc

\* Mutant: the batch's records are put in front of the accumulator.
Accumulate_Prepend(acc, out) == IF out.err = "none" THEN out.data \o acc ELSE acc

\* The accumulator after a batch returned out: an error is logged and skipped,
\* the records of a batch without error are appended.
Accumulate(acc, out) == IF out.err = "none" THEN acc \o out.data ELSE acc

\* Mutant: wg.Wait() returns at once.
WaitGroupZero_NoWait(pcs) == TRUE

\* Mutant: wg.Wait() returns as soon as one worker has left.
WaitGroupZero_FirstDone(pcs) == \E w \in Workers : pcs[w] \in {"none", "exited"}

\* The wait group's counter is zero: every spawned worker has called wg.Done().
WaitGroupZero(pcs) == \A w \in Workers : pcs[w] \in {"none", "exited"}

\* wg.Wait() returns once every spawned worker has exited; dataChan is closed
\* and drained into allData.
BatchJoin ==
    /\ dpc = "wait"
    /\ WaitGroupZero(wpc)
    /\ allData' = Flatten(dataChan)
    /\ dataChan' = <<>>
    /\ dpc' = "joined"
    /\ UNCHANGED <<sideVars, sheetsVars, reqVars, authVars, envVars, cancelVars, driverVars, pagesToFetch, errorCount, wpc,
                   wpage, wres, fetchCount, histVars>>

\* Mutant: the driver does not advance after a batch.
Advance_Stay(cur, size) == cur

\* Mutant: the driver advances by one page after a batch.
Advance_ByOne(cur, size) == cur + 1

\* currentPage after a batch: the batch's start plus the planned batch size.
Advance(cur, size) == cur + size

\* The batch returns (cancelled, all failed, or the merged records) and the
\* driver logs the error or appends the records, then advances currentPage.
BatchReturn ==
    /\ dpc = "joined"
    /\ LET out == BatchOutcome(ctxDone, errorCount, batchSize, allData)
       IN  /\ batchLog' = Append(batchLog,
                 [start |-> currentPage, count |-> batchSize, err |-> out.err,
                  data |-> out.data, failures |-> errorCount, ok |-> okPages,
                  failed |-> failedPages, ctxDone |-> ctxDone,
                  workers |-> Cardinality({w \in Workers : wpc[w] # "none"})])
           /\ allEnrollments' = Accumulate(allEnrollments, out)
    /\ currentPage' = Advance(currentPage, batchSize)
    /\ wpc' = [w \in Workers |-> "none"]
    /\ pagesToFetch' = <<>>
    /\ errorCount' = 0
    /\ allData' = <<>>
    /\ okPages' = {}
    /\ failedPages' = {}
    /\ dpc' = "loop"
    /\ UNCHANGED <<sideVars, sheetsVars, reqVars, authVars, envVars, cancelVars, p0res, result, batchSize, rows, sheet,
                   dataChan, wpage, wres, fetchCount, lateFetch, sinkLog>>

\* ----------------------------------------------------------------- the sink
\* writeAllEnrollmentsToSheet: every record becomes a row and the rows are
\* handed to OverwriteSheetData.
DriverWrite ==
    /\ dpc = "write"
    /\ rows' = [i \in 1..Len(allEnrollments) |-> ToRow(allEnrollments[i])]
    /\ sinkLog' = Append(sinkLog, [op |-> "OverwriteSheetData", rows |-> rows'])
    /\ dpc' = "ensure"
    /\ UNCHANGED <<sideVars, sheetsVars, reqVars, authVars, envVars, cancelVars, p0res, result, allEnrollments, currentPage,
                   batchSize, sheet, batchVars, fetchCount, okPages, failedPages,
                   lateFetch, batchLog>>

\* A step of OverwriteSheetData fails: the driver returns the error.
SinkFail ==
    /\ result' = [kind |-> "sink_failed", cancel |-> ctxDone]
    /\ dpc' = "done"
    /\ UNCHANGED sheet

\* OverwriteSheetData's first step, EnsureSheetExists. A remote call made with
\* a cancelled context fails.
SinkEnsure ==
    /\ dpc = "ensure"
    /\ sinkLog' = Append(sinkLog, [op |-> "EnsureSheetExists", rows |-> <<>>])
    /\ \/ /\ ~ctxDone
          /\ sheet' = [sheet EXCEPT !.exists = TRUE]
          /\ dpc' = "clear"
          /\ UNCHANGED result
       \/ SinkFail
    /\ UNCHANGED <<sideVars, sheetsVars, reqVars, authVars, envVars, cancelVars, p0res, allEnrollments, currentPage, batchSize,
                   rows, batchVars, fetchCount, okPages, failedPages, lateFetch, batchLog>>

\* OverwriteSheetData's second step, Clear.
SinkClear ==
    /\ dpc = "clear"
    /\ sinkLog' = Append(sinkLog, [op |-> "Clear", rows |-> <<>>])
    /\ \/ /\ ~ctxDone
          /\ sheet' = [sheet EXCEPT !.state = "cleared", !.rows = <<>>]
          /\ dpc' = "update"
          /\ UNCHANGED result
       \/ SinkFail
    /\ UNCHANGED <<sideVars, sheetsVars, reqVars, authVars, envVars, cancelVars, p0res, allEnrollments, currentPage, batchSize,
                   rows, batchVars, fetchCount, okPages, failedPages, lateFetch, batchLog>>

\* OverwriteSheetData's last step: the header row and the rows are written at A1.
SinkUpdate ==
    /\ dpc = "update"
    /\ sinkLog' = Append(sinkLog, [op |-> "Update", rows |-> <<HeaderRow>> \o rows])
    /\ \/ /\ ~ctxDone
          /\ sheet' = [sheet EXCEPT !.state = "written", !.rows = <<HeaderRow>> \o rows]
          /\ result' = [kind |-> "ok", cancel |-> FALSE]
          /\ dpc' = "done"
       \/ SinkFail
    /\ UNCHANGED <<sideVars, sheetsVars, reqVars, authVars, envVars, cancelVars, p0res, allEnrollments, currentPage, batchSize,
                   rows, batchVars, fetchCount, okPages, failedPages, lateFetch, batchLog>>

NextRun ==
    \/ Cancel
    \/ DriverStart
    \/ Page0Return
    \/ DriverAfterPage0
    \/ DriverLoop
    \/ BatchStart
    \/ \E w \in Workers : WorkerClaim(w)
    \/ \E w \in Workers : WorkerCheck(w)
    \/ \E w \in Workers : WorkerFetchStart(w)
    \/ \E w \in Workers : WorkerFetchReturn(w)
    \/ \E w \in Workers : WorkerOnError(w)
    \/ \E w \in Workers : WorkerSend(w)
    \/ \E w \in Workers : WorkerSendCancelled(w)
    \/ BatchJoin
    \/ BatchReturn
    \/ DriverWrite
    \/ SinkEnsure
    \/ SinkClear
    \/ SinkUpdate

SpecRun == InitRun /\ [][NextRun]_vars

\* The Go scheduler runs every runnable goroutine, and every FetchPage returns
\* (the HTTP client has a timeout and MakeRequest a bounded number of attempts).
FairRun ==
    /\ \A w \in Workers :
         /\ WF_vars(WorkerClaim(w))
         /\ WF_vars(WorkerCheck(w))
         /\ WF_vars(WorkerFetchStart(w))
         /\ WF_vars(WorkerFetchReturn(w))
         /\ WF_vars(WorkerOnError(w))
         /\ WF_vars(WorkerSend(w) \/ WorkerSendCancelled(w))
    /\ WF_vars(BatchJoin)
    /\ WF_vars(BatchReturn)

SpecRunFair == InitRun /\ [][NextRun]_vars /\ FairRun

\* ---------------------------------- the incremental-append driver (client.go)
\* client.go holds a second FetchEnrollmentsFiltered: it sets the sheet up
\* first, appends page 0 and every batch to the sheet as it goes, and waits on
\* ctx.Done() after every batch. Its batch is the batch of the driver above.
\* The package has two setupEnrollmentSheets: the one of client.go ends the
\* process with os.Exit(0), the other ensures, clears and heads the sheet.
SetupOutcomes(done) == IF done THEN {"exit", "err"} ELSE {"exit", "err", "ok"}

\* The driver calls setupEnrollmentSheets.
AppendSetup ==
    /\ dpc = "start"
    /\ \E out \in SetupOutcomes(ctxDone) :
         IF out = "ok"
         THEN /\ sheet' = [exists |-> TRUE, state |-> "written", rows |-> <<HeaderRow>>]
              /\ dpc' = "fetch0"
              /\ UNCHANGED result
         ELSE /\ result' = [kind |-> IF out = "exit" THEN "process_exit" ELSE "setup_failed",
                            cancel |-> FALSE]
              /\ dpc' = "done"
              /\ UNCHANGED sheet
    /\ UNCHANGED <<sideVars, sheetsVars, reqVars, authVars, envVars, cancelVars, p0res,
                   allEnrollments, currentPage, batchSize, rows, batchVars, fetchCount, histVars>>

\* The driver calls FetchPage for page 0.
AppendFetch0 ==
    /\ dpc = "fetch0"
    /\ dpc' = "page0"
    /\ fetchCount' = [fetchCount EXCEPT ![0] = @ + 1]
    /\ UNCHANGED <<sideVars, sheetsVars, reqVars, authVars, envVars, cancelVars, driverVars,
                   batchVars, histVars>>

\* writeEnrollmentsToSheets(data): no records, nothing to do; a cancelled
\* context, nothing written; otherwise AppendRows, whose error is only logged.
WriteToSheet(data) ==
    /\ sinkLog' = Append(sinkLog,
                      [op |-> "AppendRows", rows |-> [i \in 1..Len(data) |-> ToRow(data[i])]])
    /\ \E written \in IF ctxDone \/ data = <<>> THEN {FALSE} ELSE BOOLEAN :
         sheet' = IF written
                  THEN [sheet EXCEPT !.rows = @ \o [i \in 1..Len(data) |-> ToRow(data[i])]]
                  ELSE sheet

\* The driver's handling of what FetchPage(0) returned: the records of page 0
\* are written to the sheet and the loop starts at page 1.
AppendAfterPage0 ==
    /\ dpc = "page0ret"
    /\ \/ /\ p0res = "err"
          /\ result' = [kind |-> IF ctxDone THEN "cancelled" ELSE "page0_failed",
                        cancel |-> ctxDone]
          /\ dpc' = "done"
          /\ UNCHANGED <<currentPage, sheet, sinkLog>>
       \/ /\ p0res = "nopage"
          /\ result' = [kind |-> "no_page_info", cancel |-> FALSE]
          /\ dpc' = "done"
          /\ UNCHANGED <<currentPage, sheet, sinkLog>>
       \/ /\ p0res = "ok"
          /\ ZeroCase(upstream.totalPages, upstream.totalElements)
          /\ result' = [kind |-> "nothing_to_process", cancel |-> FALSE]
          /\ dpc' = "done"
          /\ UNCHANGED <<currentPage, sheet, sinkLog>>
       \/ /\ p0res = "ok"
          /\ ~ZeroCase(upstream.totalPages, upstream.totalElements)
          /\ WriteToSheet(Elements(0))
          /\ currentPage' = 1
          /\ dpc' = "loop"
          /\ UNCHANGED result
    /\ UNCHANGED <<sideVars, sheetsVars, reqVars, authVars, envVars, cancelVars, p0res,
                   allEnrollments, batchSize, rows, batchVars, fetchCount, okPages, failedPages,
                   lateFetch, batchLog>>

\* The batch size of one iteration: MaxPagesPerBatch, lowered to the pages
\* that remain.
ClampBatchSize(remainingPages, maxPerBatch) ==
    IF remainingPages < maxPerBatch THEN remainingPages ELSE maxPerBatch

\* The head of the batch loop: the loop condition, the cancellation check and
\* the batch size; the function returns nil when the condition fails.
AppendLoop ==
    /\ dpc = "loop"
    /\ IF MorePages(currentPage, upstream.totalPages)
       THEN IF ctxDone
            THEN /\ result' = [kind |-> "cancelled", cancel |-> TRUE]
                 /\ dpc' = "done"
                 /\ UNCHANGED batchSize
            ELSE /\ batchSize' = ClampBatchSize(upstream.totalPages - currentPage,
                                                cfg.MaxPagesPerBatch)
                 /\ dpc' = "callbatch"
                 /\ UNCHANGED result
       ELSE /\ result' = [kind |-> "ok", cancel |-> FALSE]
            /\ dpc' = "done"
            /\ UNCHANGED batchSize
    /\ UNCHANGED <<sideVars, sheetsVars, reqVars, authVars, envVars, cancelVars, p0res,
                   allEnrollments, currentPage, rows, sheet, batchVars, fetchCount, histVars>>

\* The batch returns: an error is logged, records are written to the sheet;
\* currentPage advances and the driver reaches the select that follows
\* logProgress.
AppendBatchReturn ==
    /\ dpc = "joined"
    /\ LET out == BatchOutcome(ctxDone, errorCount, batchSize, allData)
       IN  /\ batchLog' = Append(batchLog,
                 [start |-> currentPage, count |-> batchSize, err |-> out.err,
                  data |-> out.data, failures |-> errorCount, ok |-> okPages,
                  failed |-> failedPages, ctxDone |-> ctxDone,
                  workers |-> Cardinality({w \in Workers : wpc[w] # "none"})])
           /\ IF out.err = "none" /\ out.data # <<>>
              THEN WriteToSheet(out.data)
              ELSE UNCHANGED <<sheet, sinkLog>>
    /\ currentPage' = Advance(currentPage, batchSize)
    /\ wpc' = [w \in Workers |-> "none"]
    /\ pagesToFetch' = <<>>
    /\ errorCount' = 0
    /\ allData' = <<>>
    /\ okPages' = {}
    /\ failedPages' = {}
    /\ dpc' = "sleep"
    /\ UNCHANGED <<sideVars, sheetsVars, reqVars, authVars, envVars, cancelVars, p0res, result,
                   allEnrollments, batchSize, rows, dataChan, wpage, wres, fetchCount, lateFetch>>

\* Mutant: the select after a batch has a default branch.
SelectReady_Default(done) == TRUE

\* Whether the select after a batch can proceed: its one case is ctx.Done().
SelectReady(done) == done

\* The select after a batch: the ctx.Done() case returns the cancellation error.
AppendSleep ==
    /\ dpc = "sleep"
    /\ SelectReady(ctxDone)
    /\ result' = [kind |-> "cancelled_during_sleep", cancel |-> ctxDone]
    /\ dpc' = "done"
    /\ UNCHANGED <<sideVars, sheetsVars, reqVars, authVars, envVars, cancelVars, p0res,
                   allEnrollments, currentPage, batchSize, rows, sheet, batchVars, fetchCount,
                   histVars>>

NextAppend ==
    \/ Cancel
    \/ AppendSetup
    \/ AppendFetch0
    \/ Page0Return
    \/ AppendAfterPage0
    \/ AppendLoop
    \/ BatchStart
    \/ \E w \in Workers : WorkerClaim(w)
    \/ \E w \in Workers : WorkerCheck(w)
    \/ \E w \in Workers : WorkerFetchStart(w)
    \/ \E w \in Workers : WorkerFetchReturn(w)
    \/ \E w \in Workers : WorkerOnError(w)
    \/ \E w \in Workers : WorkerSend(w)
    \/ \E w \in Workers : WorkerSendCancelled(w)
    \/ BatchJoin
    \/ AppendBatchReturn
    \/ AppendSleep

SpecAppend == InitRun /\ [][NextAppend]_vars

\* ------------------------------------------------------------ GetAuthToken
\* What one HTTP attempt can end with: 0 is a transport error (client.Do
\* returned err != nil), any other value is the response's status code.
AttemptOutcomes == {0, 200, 302, 401, 404, 429, 503}

\* Mutant: 404 is retried.
Classify_Retry404(out) ==
    IF out = 0 \/ out = 404 THEN "retry"
    ELSE IF out = 429 \/ out >= 500 THEN "retry"
    ELSE IF out = 401 THEN "terminal"
    ELSE IF out >= 400 THEN "terminal"
    ELSE "success"

\* MakeRequest's handling of one attempt's outcome.
Classify(out) ==
    IF out = 0 THEN "retry"
    ELSE IF out = 429 \/ out >= 500 THEN "retry"
    ELSE IF out = 401 THEN "terminal"
    ELSE IF out >= 400 THEN "terminal"
    ELSE "success"

\* What the body of a successful auth response can decode to.
AuthBodies == {"token", "empty", "badjson"}

\* Mutant: a cached token is reused whatever its expiry.
TokenValid_NoExpiry(tok, t, expiry) == tok # 0

\* Mutant: whatever the cache holds is returned, a failure's empty token too.
TokenValid_Always(tok, t, expiry) == TRUE

\* Mutant: the cache is not consulted once the mutex is held.
TokenValid_Never(tok, t, expiry) == FALSE

\* GetAuthToken's test for reusing the cached token.
TokenValid(tok, t, expiry) == tok # 0 /\ t < expiry

\* Mutant: GetAuthToken does not take the mutex.
LockFree_Always(holder) == TRUE

\* Whether muAuth.Lock() can return.
LockFree(holder) == holder = 0

runOnlyVars == <<cfg, upstream, dpc, p0res, result, allEnrollments, currentPage,
                 batchSize, rows, sheet, pagesToFetch, dataChan, errorCount, allData,
                 wpc, wpage, wres, fetchCount, okPages, failedPages, lateFetch,
                 batchLog, sinkLog, cancelledAt, passedAtCancel>>

histAuth == <<nIssued, issuedAt, nExchSince>>

\* No run of FetchEnrollmentsFiltered has started on the client.
NoRun ==
    /\ InitClient
    /\ cfg = [MaxPagesPerBatch |-> 1, MaxParallelRequests |-> 1]
    /\ upstream = [totalPages |-> 0, totalElements |-> 0]
    /\ ctxDone = FALSE
    /\ dpc = "start"
    /\ p0res = "none"
    /\ result = NoResult
    /\ allEnrollments = <<>>
    /\ currentPage = 0
    /\ batchSize = 0
    /\ rows = <<>>
    /\ sheet = [exists |-> FALSE, state |-> "stale", rows |-> <<>>]
    /\ pagesToFetch = <<>>
    /\ dataChan = <<>>
    /\ errorCount = 0
    /\ allData = <<>>
    /\ wpc = [w \in Workers |-> "none"]
    /\ wpage = [w \in Workers |-> 0]
    /\ wres = [w \in Workers |-> "none"]
    /\ fetchCount = [p \in PageIndices |-> 0]
    /\ okPages = {}
    /\ failedPages = {}
    /\ lateFetch = {}
    /\ batchLog = <<>>
    /\ sinkLog = <<>>
    /\ cancelledAt = "never"
    /\ passedAtCancel = {}

InitAuth == NoRun /\ ReqIdle /\ SheetsIdle /\ SideIdle

\* The wall clock advances.
Tick ==
    /\ now < MaxTime
    /\ now' = now + 1
    /\ UNCHANGED <<sideVars, sheetsVars, reqVars, runOnlyVars, ctxDone, token, tokenExpiry, muAuth, apc, attempt,
                   ncalls, ret, waited, histAuth>>

\* The callers' context is cancelled.
AuthCancel ==
    /\ ~ctxDone
    /\ ctxDone' = TRUE
    /\ UNCHANGED <<sideVars, sheetsVars, reqVars, runOnlyVars, authVars>>

\* A goroutine calls GetAuthToken and reaches muAuth.Lock().
AuthCall(c) ==
    /\ apc[c] = "idle"
    /\ ncalls < MaxCalls
    /\ ncalls' = ncalls + 1
    /\ apc' = [apc EXCEPT ![c] = "lock"]
    /\ waited' = [waited EXCEPT ![c] = NoWait]
    /\ ret' = [ret EXCEPT ![c] = NoReturn]
    /\ UNCHANGED <<sideVars, sheetsVars, reqVars, runOnlyVars, ctxDone, now, token, tokenExpiry, muAuth, attempt,
                   histAuth>>

\* muAuth.Lock() returns.
AuthLock(c) ==
    /\ apc[c] = "lock"
    /\ LockFree(muAuth)
    /\ muAuth' = c
    /\ apc' = [apc EXCEPT ![c] = "check"]
    /\ UNCHANGED <<sideVars, sheetsVars, reqVars, runOnlyVars, ctxDone, now, token, tokenExpiry, attempt, ncalls, ret,
                   waited, histAuth>>

\* The caller holds the mutex: it returns the cached token if that is still
\* valid, and otherwise starts an authentication exchange with MakeRequest.
AuthCheck(c) ==
    /\ apc[c] = "check"
    /\ IF TokenValid(token, now, tokenExpiry)
       THEN /\ ret' = [ret EXCEPT ![c] = [tok |-> token, err |-> "none",
                                         exchanged |-> FALSE, at |-> now,
                                         waited |-> waited[c], issued |-> issuedAt,
                                         last |-> nIssued]]
            /\ muAuth' = 0
            /\ apc' = [apc EXCEPT ![c] = "idle"]
            /\ UNCHANGED <<attempt, nExchSince>>
       ELSE /\ attempt' = [attempt EXCEPT ![c] = 0]
            /\ nExchSince' = nExchSince + 1
            /\ apc' = [apc EXCEPT ![c] = "attempt"]
            /\ UNCHANGED <<ret, muAuth>>
    /\ UNCHANGED <<sideVars, sheetsVars, reqVars, runOnlyVars, ctxDone, now, token, tokenExpiry, ncalls, waited,
                   nIssued, issuedAt>>

\* Mutant: a failed exchange clears the cached token and keeps its expiry.
AuthFail_ClearsToken(c, kind) ==
    /\ ret' = [ret EXCEPT ![c] = [tok |-> 0, err |-> kind, exchanged |-> TRUE,
                                  at |-> now, waited |-> waited[c], issued |-> issuedAt,
                                  last |-> nIssued]]
    /\ muAuth' = 0
    /\ apc' = [apc EXCEPT ![c] = "idle"]
    /\ attempt' = [attempt EXCEPT ![c] = 0]
    /\ token' = 0
    /\ UNCHANGED <<tokenExpiry, waited, histAuth>>

\* GetAuthToken returns an error: the deferred Unlock runs and the cached
\* token and expiry are as they were.
AuthFail(c, kind) ==
    /\ ret' = [ret EXCEPT ![c] = [tok |-> 0, err |-> kind, exchanged |-> TRUE,
                                  at |-> now, waited |-> waited[c], issued |-> issuedAt,
                                  last |-> nIssued]]
    /\ muAuth' = 0
    /\ apc' = [apc EXCEPT ![c] = "idle"]
    /\ attempt' = [attempt EXCEPT ![c] = 0]
    /\ UNCHANGED <<token, tokenExpiry, waited, histAuth>>

\* The head of MakeRequest's loop: the non-blocking test of ctx.Done().
ReqPreCheck(c) ==
    /\ apc[c] = "attempt"
    /\ IF ctxDone
       THEN AuthFail(c, "cancelled")
       ELSE /\ apc' = [apc EXCEPT ![c] = "inflight"]
            /\ UNCHANGED <<ret, muAuth, attempt, token, tokenExpiry, waited, histAuth>>
    /\ UNCHANGED <<sideVars, sheetsVars, reqVars, runOnlyVars, ctxDone, now, ncalls>>

\* The auth request's attempt ends. A success is decoded and cached with a
\* fresh validity window; a terminal failure, and a retryable one on the last
\* attempt, is returned; any other retryable failure leads to the backoff sleep.
ReqDo(c) ==
    /\ apc[c] = "inflight"
    /\ \E out \in AttemptOutcomes :
         \/ /\ Classify(out) = "success"
            /\ \E body \in AuthBodies :
                 IF body = "token"
                 THEN /\ token' = nIssued + 1
                      /\ tokenExpiry' = now + TokenTTL
                      /\ nIssued' = nIssued + 1
                      /\ issuedAt' = now
                      /\ nExchSince' = 0
                      /\ ret' = [ret EXCEPT ![c] = [tok |-> nIssued + 1, err |-> "none",
                                                    exchanged |-> TRUE, at |-> now,
                                                    waited |-> waited[c],
                                                    issued |-> now,
                                                    last |-> nIssued + 1]]
                      /\ waited' = [d \in Callers |->
                                      IF apc[d] = "lock"
                                      THEN [tok |-> nIssued + 1, at |-> now]
                                      ELSE waited[d]]
                      /\ muAuth' = 0
                      /\ apc' = [apc EXCEPT ![c] = "idle"]
                      /\ attempt' = [attempt EXCEPT ![c] = 0]
                 ELSE AuthFail(c, body)
         \/ /\ Classify(out) = "terminal"
            /\ AuthFail(c, "terminal")
         \/ /\ Classify(out) = "retry"
            /\ IF attempt[c] < MaxRetries
               THEN /\ apc' = [apc EXCEPT ![c] = "sleep"]
                    /\ UNCHANGED <<ret, muAuth, attempt, token, tokenExpiry, waited,
                                   histAuth>>
               ELSE AuthFail(c, IF ctxDone THEN "cancelled" ELSE "exhausted")
    /\ UNCHANGED <<sideVars, sheetsVars, reqVars, runOnlyVars, ctxDone, now, ncalls>>

\* The backoff sleep ends with its timer: the next attempt.
ReqSleepWake(c) ==
    /\ apc[c] = "sleep"
    /\ attempt' = [attempt EXCEPT ![c] = @ + 1]
    /\ apc' = [apc EXCEPT ![c] = "attempt"]
    /\ UNCHANGED <<sideVars, sheetsVars, reqVars, runOnlyVars, ctxDone, now, token, tokenExpiry, muAuth, ncalls, ret,
                   waited, histAuth>>

\* The backoff sleep ends with ctx.Done(): MakeRequest fails.
ReqSleepCancel(c) ==
    /\ apc[c] = "sleep"
    /\ ctxDone
    /\ AuthFail(c, "cancelled")
    /\ UNCHANGED <<sideVars, sheetsVars, reqVars, runOnlyVars, ctxDone, now, ncalls>>

NextAuth ==
    \/ Tick
    \/ AuthCancel
    \/ \E c \in Callers : AuthCall(c)
    \/ \E c \in Callers : AuthLock(c)
    \/ \E c \in Callers : AuthCheck(c)
    \/ \E c \in Callers : ReqPreCheck(c)
    \/ \E c \in Callers : ReqDo(c)
    \/ \E c \in Callers : ReqSleepWake(c)
    \/ \E c \in Callers : ReqSleepCancel(c)

SpecAuth == InitAuth /\ [][NextAuth]_vars

\* Mutant: a 401 answer to a data request clears the cached token.
CacheAfterResponse_Invalidate(tok, out) == IF out = 401 THEN 0 ELSE tok

\* The cached token after a data request ended with out: neither MakeRequest
\* nor FetchPage assigns c.token or c.tokenExpiry.
CacheAfterResponse(tok, out) == tok

\* What MakeRequest can end a data request with: a body (200) or a 401; any
\* other error leaves the client as a body does.
DataOutcomes == {200, 401}

\* FetchPage's data request, made with the token GetAuthToken returned to c,
\* ends with out; FetchPage returns and c holds no token any more.
DataRequest(c) ==
    /\ apc[c] = "idle"
    /\ ret[c].err = "none"
    /\ ret[c].tok # 0
    /\ \E out \in DataOutcomes :
         /\ token' = CacheAfterResponse(token, out)
         /\ rejected' = IF out = 401 /\ rejected = NoRejection
                        THEN [tok |-> ret[c].tok, by |-> c]
                        ELSE rejected
    /\ ret' = [ret EXCEPT ![c] = NoReturn]
    /\ UNCHANGED <<ensureVars, handlerVars, sheetsVars, reqVars, runOnlyVars, ctxDone, now,
                   tokenExpiry, muAuth, apc, attempt, ncalls, waited, histAuth>>

NextAuthData ==
    \/ NextAuth
    \/ \E c \in Callers : DataRequest(c)

\* GetAuthToken together with the data requests that use its tokens.
SpecAuthData == InitAuth /\ [][NextAuthData]_vars

\* ------------------------------------------------------------- MakeRequest
RECURSIVE Pow2(_)
\* 1 << n
Pow2(n) == IF n = 0 THEN 1 ELSE 2 * Pow2(n - 1)

\* Mutant: the same delay before every retry.
Delay_Constant(retryDelay, att) == retryDelay

\* The backoff delay after the failure of attempt att.
Delay(retryDelay, att) == retryDelay * Pow2(att)

\* The condition of MakeRequest's for loop.
LoopCond(att, maxRetries) == att <= maxRetries

\* Mutant: a backoff sleep follows every retryable failure, the last included.
SleepCond_Always(att, maxRetries) == TRUE

\* Whether a backoff sleep and another attempt follow a retryable failure.
SleepCond(att, maxRetries) == att < maxRetries

\* Mutant: the pre-attempt test of ctx.Done() is missing.
CtxCheck_Never(done) == FALSE

\* The non-blocking select on ctx.Done() at the head of the loop body.
CtxCheck(done) == done

InitReq ==
    /\ NoRun
    /\ SheetsIdle
    /\ SideIdle
    /\ mcfg \in [MaxRetries : 0..MaxReqRetries, RetryDelay : 1..MaxDelay]
    /\ mpc = "check"
    /\ mattempt = 0
    /\ lastErr = NoAttemptErr
    /\ mret = NoReqReturn
    /\ attemptLog = <<>>
    /\ sleepLog = <<>>
    /\ mCancelAt = NeverCancelled

\* MakeRequest returns.
ReqReturn(kind, out, le, wraps) ==
    /\ mret' = [kind |-> kind, out |-> out, lastErr |-> le, wrapsCtx |-> wraps]
    /\ mpc' = "done"

\* The caller's context is cancelled while MakeRequest runs.
MakeRequestCancel ==
    /\ ~ctxDone
    /\ mpc \notin {"idle", "done"}
    /\ ctxDone' = TRUE
    /\ mCancelAt' = [pc |-> mpc, attempts |-> Len(attemptLog), sleeps |-> Len(sleepLog)]
    /\ UNCHANGED <<sideVars, sheetsVars, runOnlyVars, authVars, mcfg, mpc, mattempt, lastErr, mret, attemptLog,
                   sleepLog>>

\* The loop condition and the select on ctx.Done() before the attempt.
MakeRequestCheck ==
    /\ mpc = "check"
    /\ IF ~LoopCond(mattempt, mcfg.MaxRetries)
       THEN ReqReturn("exhausted", -1, lastErr, lastErr.byCtx)
       ELSE IF CtxCheck(ctxDone)
            THEN ReqReturn("cancelled_before_attempt", -1, lastErr, TRUE)
            ELSE /\ mpc' = "do"
                 /\ UNCHANGED mret
    /\ UNCHANGED <<sideVars, sheetsVars, runOnlyVars, authVars, ctxDone, mcfg, mattempt, lastErr, attemptLog,
                   sleepLog, mCancelAt>>

\* The request is built and c.Client.Do(req) is called.
MakeRequestDo ==
    /\ mpc = "do"
    /\ attemptLog' = Append(attemptLog, [attempt |-> mattempt, late |-> ctxDone,
                                         out |-> -1, cls |-> "pending", byCtx |-> FALSE])
    /\ mpc' = "inflight"
    /\ UNCHANGED <<sideVars, sheetsVars, runOnlyVars, authVars, ctxDone, mcfg, mattempt, lastErr, mret, sleepLog,
                   mCancelAt>>

\* c.Client.Do returns and its outcome is classified. A request made with a
\* context that is already done fails with the context's error; a request in
\* flight when the context is cancelled is aborted with that error or has
\* its response read all the same. Success and terminal failures return; a
\* retryable failure is kept in lastErr and is followed by the backoff sleep,
\* or, after the last permitted attempt, by the return of lastErr.
MakeRequestResponse ==
    /\ mpc = "inflight"
    /\ \E out \in AttemptOutcomes, byCtx \in BOOLEAN, readOk \in BOOLEAN :
         LET n == Len(attemptLog)
             cls == Classify(out)
             le == [out |-> out, attempt |-> mattempt, byCtx |-> byCtx]
         IN  /\ attemptLog[n].late => (out = 0 /\ byCtx)
             /\ byCtx => (out = 0 /\ ctxDone)
             /\ (cls # "success") => readOk
             /\ attemptLog' = [attemptLog EXCEPT ![n] =
                                 [@ EXCEPT !.out = out, !.cls = cls, !.byCtx = byCtx]]
             /\ \/ /\ cls = "success"
                   /\ ReqReturn(IF readOk THEN "success" ELSE "read_failed", out,
                                lastErr, FALSE)
                   /\ UNCHANGED <<lastErr, sleepLog>>
                \/ /\ cls = "terminal"
                   /\ ReqReturn("terminal", out, lastErr, FALSE)
                   /\ UNCHANGED <<lastErr, sleepLog>>
                \/ /\ cls = "retry"
                   /\ lastErr' = le
                   /\ IF SleepCond(mattempt, mcfg.MaxRetries)
                      THEN /\ sleepLog' = Append(sleepLog,
                                 [after |-> mattempt,
                                  len |-> Delay(mcfg.RetryDelay, mattempt),
                                  by |-> "pending"])
                           /\ mpc' = "sleep"
                           /\ UNCHANGED mret
                      ELSE /\ ReqReturn("exhausted", -1, le, byCtx)
                           /\ UNCHANGED sleepLog
    /\ UNCHANGED <<sideVars, sheetsVars, runOnlyVars, authVars, ctxDone, mcfg, mattempt, mCancelAt>>

\* The backoff sleep ends with its timer: attempt++ and the next iteration.
MakeRequestSleepTimer ==
    /\ mpc = "sleep"
    /\ sleepLog' = [sleepLog EXCEPT ![Len(sleepLog)].by = "timer"]
    /\ mattempt' = mattempt + 1
    /\ mpc' = "check"
    /\ UNCHANGED <<sideVars, sheetsVars, runOnlyVars, authVars, ctxDone, mcfg, lastErr, mret, attemptLog,
                   mCancelAt>>

\* The backoff sleep ends with ctx.Done(): MakeRequest returns ctx.Err().
MakeRequestSleepCancel ==
    /\ mpc = "sleep"
    /\ ctxDone
    /\ sleepLog' = [sleepLog EXCEPT ![Len(sleepLog)].by = "ctx"]
    /\ ReqReturn("cancelled_during_wait", -1, lastErr, TRUE)
    /\ UNCHANGED <<sideVars, sheetsVars, runOnlyVars, authVars, ctxDone, mcfg, mattempt, lastErr, attemptLog,
                   mCancelAt>>

NextReq ==
    \/ MakeRequestCancel
    \/ MakeRequestCheck
    \/ MakeRequestDo
    \/ MakeRequestResponse
    \/ MakeRequestSleepTimer
    \/ MakeRequestSleepCancel

SpecReq == InitReq /\ [][NextReq]_vars

\* Every call of c.Client.Do returns (the client has a 60 s timeout), the
\* backoff timer fires, and the goroutine running MakeRequest is scheduled.
FairReq ==
    /\ WF_vars(MakeRequestCheck)
    /\ WF_vars(MakeRequestDo)
    /\ WF_vars(MakeRequestResponse)
    /\ WF_vars(MakeRequestSleepTimer \/ MakeRequestSleepCancel)

SpecReqFair == InitReq /\ [][NextReq]_vars /\ FairReq

\* ------------------------------------------------------ GoogleSheetsWriter
\* Largest retryMaxAttempts the writer is built with.
MaxSheetRetries == 1
\* Most headers, and most rows, an operation is called with.
MaxSheetRows == 1

\* What a remote call of the Sheets client returns: nil (code 200), an error
\* that is not a *googleapi.Error (code 0: a transport error, a cancelled
\* context), or a *googleapi.Error with its code; rateLimit tells whether the
\* error's message contains "ratelimitexceeded".
SheetsOutcomes ==
    {[code |-> c, rateLimit |-> FALSE] : c \in {0, 200, 400, 403, 429, 503}}
        \cup {[code |-> 403, rateLimit |-> TRUE]}

TransportError == [code |-> 0, rateLimit |-> FALSE]

\* A call made with a cancelled context fails with the context's error.
OutcomesUnder(done) == IF done THEN {TransportError} ELSE SheetsOutcomes

IsRetryableSheetsError(o) ==
    /\ o.code # 200
    /\ o.code # 0
    /\ \/ o.code >= 500 /\ o.code < 600
       \/ o.code = 429
       \/ o.code = 403 /\ o.rateLimit

\* The operations of the writer with the arguments that matter to them: the
\* number of headers and the number of rows.
SheetOps ==
    {o \in [name : {"EnsureSheetExists", "Clear", "SetHeaders", "AppendRows",
                    "OverwriteSheetData"},
            headers : 0..MaxSheetRows, rows : 0..MaxSheetRows] :
        /\ o.name \in {"EnsureSheetExists", "Clear"} => o.headers = 0 /\ o.rows = 0
        /\ o.name = "SetHeaders" => o.rows = 0
        /\ o.name = "AppendRows" => o.headers = 0}

\* The first remote call of an operation; AppendRows with no rows makes none.
FirstCall(op) ==
    IF op.name \in {"EnsureSheetExists", "OverwriteSheetData"} THEN "Get"
    ELSE IF op.name = "Clear" THEN "Clear"
    ELSE IF op.name = "SetHeaders" THEN "Update"
    ELSE IF op.rows = 0 THEN "none" ELSE "Append"

\* The remote call that follows a call that succeeded ("Get": the lookup found
\* the sheet), "none" when the operation is complete. OverwriteSheetData is
\* EnsureSheetExists, then Clear, then one Update unless there is nothing to
\* write.
NextCall(op, call) ==
    IF op.name = "OverwriteSheetData"
    THEN IF call \in {"Get", "BatchUpdate"} THEN "Clear"
         ELSE IF call = "Clear" /\ op.headers + op.rows > 0 THEN "Update"
         ELSE "none"
    ELSE "none"

InitSheets ==
    /\ NoRun
    /\ ReqIdle
    /\ SideIdle
    /\ scfg \in [retryMaxAttempts : 0..MaxSheetRetries]
    /\ sop \in SheetOps
    /\ sexists \in BOOLEAN
    /\ spc = "begin"
    /\ scall = "none"
    /\ sattempt = 0
    /\ slog = <<>>
    /\ sret = "none"

\* The operation returns r to its caller.
SheetsReturn(r) ==
    /\ spc' = "done"
    /\ sret' = r
    /\ UNCHANGED <<scall, sattempt>>

\* The operation goes on to the remote call named call: the lookup is called
\* directly, every other call through executeSheetsCall, from attempt 0.
SheetsGoto(call) ==
    IF call = "none" THEN SheetsReturn("nil")
    ELSE /\ spc' = IF call = "Get" THEN "get" ELSE "check"
         /\ scall' = call
         /\ sattempt' = 0
         /\ UNCHANGED sret

\* The caller's context is cancelled while the operation runs.
SheetsCancel ==
    /\ ~ctxDone
    /\ spc \notin {"idle", "done"}
    /\ ctxDone' = TRUE
    /\ UNCHANGED <<sideVars, sheetsVars, runOnlyVars, authVars, reqVars>>

\* The operation is called.
SheetsBegin ==
    /\ spc = "begin"
    /\ SheetsGoto(FirstCall(sop))
    /\ UNCHANGED <<sideVars, scfg, sop, sexists, slog, ctxDone, runOnlyVars, authVars, reqVars>>

\* EnsureSheetExists looks the sheet up with Spreadsheets.Get, called once: an
\* error is returned, a sheet that is found needs nothing, a missing sheet is
\* created.
SheetsGet ==
    /\ spc = "get"
    /\ \E o \in OutcomesUnder(ctxDone) :
         /\ slog' = Append(slog, [call |-> "Get", attempt |-> 0, out |-> o])
         /\ IF o.code # 200 THEN SheetsReturn("lookup_failed")
            ELSE IF sexists THEN SheetsGoto(NextCall(sop, "Get"))
            ELSE SheetsGoto("BatchUpdate")
    /\ UNCHANGED <<sideVars, scfg, sop, sexists, ctxDone, runOnlyVars, authVars, reqVars>>

\* executeSheetsCall, the head of the loop: the test of ctx.Done().
SheetsCheck ==
    /\ spc = "check"
    /\ IF ctxDone THEN SheetsReturn("cancelled_before_attempt")
       ELSE spc' = "call" /\ UNCHANGED <<scall, sattempt, sret>>
    /\ UNCHANGED <<sideVars, scfg, sop, sexists, slog, ctxDone, runOnlyVars, authVars, reqVars>>

\* executeSheetsCall calls callFunc: success ends the call, a retryable error
\* with attempts left leads to the wait, any other error is returned.
SheetsCall ==
    /\ spc = "call"
    /\ \E o \in OutcomesUnder(ctxDone) :
         /\ slog' = Append(slog, [call |-> scall, attempt |-> sattempt, out |-> o])
         /\ sexists' = IF o.code = 200 /\ scall = "BatchUpdate" THEN TRUE ELSE sexists
         /\ IF o.code = 200 THEN SheetsGoto(NextCall(sop, scall))
            ELSE IF IsRetryableSheetsError(o) /\ sattempt < scfg.retryMaxAttempts
            THEN spc' = "sleep" /\ UNCHANGED <<scall, sattempt, sret>>
            ELSE SheetsReturn("fatal")
    /\ UNCHANGED <<sideVars, scfg, sop, ctxDone, runOnlyVars, authVars, reqVars>>

\* The wait before the next attempt ends with the timer.
SheetsSleepTimer ==
    /\ spc = "sleep"
    /\ sattempt' = sattempt + 1
    /\ spc' = "check"
    /\ UNCHANGED <<sideVars, scfg, sop, sexists, scall, slog, sret, ctxDone, runOnlyVars, authVars,
                   reqVars>>

\* The wait before the next attempt ends with ctx.Done().
SheetsSleepCancel ==
    /\ spc = "sleep"
    /\ ctxDone
    /\ SheetsReturn("cancelled_during_wait")
    /\ UNCHANGED <<sideVars, scfg, sop, sexists, slog, ctxDone, runOnlyVars, authVars, reqVars>>

NextSheets ==
    \/ SheetsCancel
    \/ SheetsBegin
    \/ SheetsGet
    \/ SheetsCheck
    \/ SheetsCall
    \/ SheetsSleepTimer
    \/ SheetsSleepCancel

SpecSheets == InitSheets /\ [][NextSheets]_vars

\* ------------------------------------- EnsureSheetExists, several calls
\* Several calls of EnsureSheetExists for one sheet name on one spreadsheet,
\* interleaved in every order: the writer holds no lock, so the calls share
\* nothing but the spreadsheet.
InitEnsure ==
    /\ NoRun
    /\ ReqIdle
    /\ SideIdle
    /\ scfg \in [retryMaxAttempts : 0..MaxSheetRetries]
    /\ sop = [name |-> "EnsureSheetExists", headers |-> 0, rows |-> 0]
    /\ sexists \in BOOLEAN
    /\ spc = "idle"
    /\ scall = "none"
    /\ sattempt = 0
    /\ slog = <<>>
    /\ sret = "none"

\* Call c returns r to its caller.
EnsureReturn(c, r) ==
    /\ epc' = [epc EXCEPT ![c] = "done"]
    /\ eret' = [eret EXCEPT ![c] = r]

\* Whether the remote service failed the create request answered with o: any
\* error but the rejection (400) of a title the spreadsheet already has.
CreateFailed(exists, o) == o.code # 200 /\ ~(exists /\ o.code = 400)

\* The context of the calls is cancelled while one of them runs.
EnsureCancel ==
    /\ ~ctxDone
    /\ \E c \in EnsureCallers : epc[c] # "done"
    /\ ctxDone' = TRUE
    /\ UNCHANGED <<sideVars, sheetsVars, runOnlyVars, authVars, reqVars>>

\* Call c looks the sheet up with Spreadsheets.Get: an error is returned, a
\* sheet that is found needs nothing, a missing sheet is to be created.
EnsureGet(c) ==
    /\ epc[c] = "get"
    /\ \E o \in OutcomesUnder(ctxDone) :
         /\ etransient' = (etransient \/ o.code # 200)
         /\ IF o.code # 200 THEN EnsureReturn(c, "lookup_failed")
            ELSE IF sexists THEN EnsureReturn(c, "nil")
            ELSE /\ epc' = [epc EXCEPT ![c] = "check"]
                 /\ UNCHANGED eret
    /\ UNCHANGED <<eattempt, ecreates, dataVars, handlerVars, sheetsVars, ctxDone, runOnlyVars,
                   authVars, reqVars>>

\* executeSheetsCall of call c, the head of the loop: the test of ctx.Done().
EnsureCheck(c) ==
    /\ epc[c] = "check"
    /\ IF ctxDone THEN EnsureReturn(c, "cancelled_before_attempt")
       ELSE epc' = [epc EXCEPT ![c] = "call"] /\ UNCHANGED eret
    /\ UNCHANGED <<eattempt, ecreates, etransient, dataVars, handlerVars, sheetsVars, ctxDone,
                   runOnlyVars, authVars, reqVars>>

\* Call c issues the BatchUpdate that adds the sheet: the spreadsheet has the
\* sheet once a create succeeds; success ends the call, a retryable error with
\* attempts left leads to the wait, any other error is returned.
EnsureCreate(c) ==
    /\ epc[c] = "call"
    /\ ecreates' = ecreates + 1
    /\ \E o \in OutcomesUnder(ctxDone) :
         /\ sexists' = (sexists \/ o.code = 200)
         /\ etransient' = (etransient \/ CreateFailed(sexists, o))
         /\ IF o.code = 200 THEN EnsureReturn(c, "nil")
            ELSE IF IsRetryableSheetsError(o) /\ eattempt[c] < scfg.retryMaxAttempts
            THEN epc' = [epc EXCEPT ![c] = "sleep"] /\ UNCHANGED eret
            ELSE EnsureReturn(c, "fatal")
    /\ UNCHANGED <<eattempt, dataVars, handlerVars, scfg, sop, spc, scall, sattempt, slog, sret,
                   ctxDone, runOnlyVars, authVars, reqVars>>

\* The wait of call c before its next attempt ends with the timer.
EnsureSleepTimer(c) ==
    /\ epc[c] = "sleep"
    /\ eattempt' = [eattempt EXCEPT ![c] = eattempt[c] + 1]
    /\ epc' = [epc EXCEPT ![c] = "check"]
    /\ UNCHANGED <<eret, ecreates, etransient, dataVars, handlerVars, sheetsVars, ctxDone,
                   runOnlyVars, authVars, reqVars>>

\* The wait of call c before its next attempt ends with ctx.Done().
EnsureSleepCancel(c) ==
    /\ epc[c] = "sleep"
    /\ ctxDone
    /\ EnsureReturn(c, "cancelled_during_wait")
    /\ UNCHANGED <<eattempt, ecreates, etransient, dataVars, handlerVars, sheetsVars, ctxDone,
                   runOnlyVars, authVars, reqVars>>

NextEnsure ==
    \/ EnsureCancel
    \/ \E c \in EnsureCallers : EnsureGet(c)
    \/ \E c \in EnsureCallers : EnsureCheck(c)
    \/ \E c \in EnsureCallers : EnsureCreate(c)
    \/ \E c \in EnsureCallers : EnsureSleepTimer(c)
    \/ \E c \in EnsureCallers : EnsureSleepCancel(c)

SpecEnsure == InitEnsure /\ [][NextEnsure]_vars

\* ------------------------------------------------------ the fetch handler
\* Most pages of the collection in a run started by the handler.
HandlerPages == 2

\* The handler has parsed the request, derived ctx from the request's context
\* with a deadline, made errChan and started the goroutine that runs
\* FetchEnrollmentsFiltered.
InitHandler ==
    /\ InitRun
    /\ cfg = [MaxPagesPerBatch |-> 1, MaxParallelRequests |-> 1]
    /\ upstream.totalPages <= HandlerPages

\* The error value FetchEnrollmentsFiltered returned.
FetchErr(res) == IF res.kind = "ok" THEN "nil" ELSE res.kind

\* The deadline of ctx expires, or the client goes away, after the fetch has
\* returned and before the handler has.
HandlerDeadline ==
    /\ ~ctxDone
    /\ dpc = "done"
    /\ hpc = "select"
    /\ ctxDone' = TRUE
    /\ UNCHANGED <<sideVars, sheetsVars, reqVars, authVars, runOnlyVars>>

\* FetchEnrollmentsFiltered returns in the goroutine.
GoroutineReturn ==
    /\ hgo = "running"
    /\ dpc = "done"
    /\ hgo' = "send"
    /\ UNCHANGED <<hpc, errChan, hrecv, hbranch, hresp, dataVars, ensureVars, sheetsVars,
                   reqVars, authVars, runVars>>

\* Mutant: errChan is made without a buffer.
CanSend_Unbuffered(buffered, receiving) == receiving

\* Whether a send on errChan proceeds: the buffer of one value has room, or a
\* receiver is waiting.
CanSend(buffered, receiving) == buffered < 1 \/ receiving

\* The goroutine sends the error on errChan and ends.
GoroutineSend ==
    /\ hgo = "send"
    /\ CanSend(Len(errChan), hpc = "select")
    /\ errChan' = Append(errChan, FetchErr(result))
    /\ hgo' = "exited"
    /\ UNCHANGED <<hpc, hrecv, hbranch, hresp, dataVars, ensureVars, sheetsVars, reqVars,
                   authVars, runVars>>

\* Mutant: a fetch that ended without error is reported as a success on the
\* cancellation branch too.
Respond_OkWhenNil(branch, got) ==
    IF got = "nil" THEN 200 ELSE IF got = "none" THEN 408 ELSE 500

\* The status the handler responds with: on the ctx.Done() branch 500 when an
\* error was received and 408 otherwise, on the errChan branch 500 for an
\* error and 200 for nil. got is "none" when nothing was received.
Respond(branch, got) ==
    IF branch = "ctx"
    THEN IF got \notin {"none", "nil"} THEN 500 ELSE 408
    ELSE IF got # "nil" THEN 500 ELSE 200

\* The handler's select takes the ctx.Done() case.
HandlerCtxBranch ==
    /\ hpc = "select"
    /\ ctxDone
    /\ hpc' = "inner"
    /\ hbranch' = "ctx"
    /\ UNCHANGED <<hgo, errChan, hrecv, hresp, dataVars, ensureVars, sheetsVars, reqVars,
                   authVars, runVars>>

\* The inner select: the error is received if one is in errChan, the default
\* case is taken otherwise; the handler responds and returns.
HandlerInner ==
    /\ hpc = "inner"
    /\ IF errChan # <<>>
       THEN /\ hrecv' = Head(errChan)
            /\ errChan' = Tail(errChan)
       ELSE UNCHANGED <<hrecv, errChan>>
    /\ hresp' = Respond(hbranch, hrecv')
    /\ hpc' = "returned"
    /\ UNCHANGED <<hgo, hbranch, dataVars, ensureVars, sheetsVars, reqVars, authVars, runVars>>

\* The handler's select takes the errChan case, responds and returns; the
\* deferred cancel() ends ctx.
HandlerRecv ==
    /\ hpc = "select"
    /\ errChan # <<>>
    /\ hbranch' = "result"
    /\ hrecv' = Head(errChan)
    /\ errChan' = Tail(errChan)
    /\ hresp' = Respond("result", hrecv')
    /\ hpc' = "returned"
    /\ ctxDone' = TRUE
    /\ UNCHANGED <<hgo, dataVars, ensureVars, sheetsVars, reqVars, authVars, runOnlyVars>>

NextHandler ==
    \/ NextRun
    \/ HandlerDeadline
    \/ GoroutineReturn
    \/ GoroutineSend
    \/ HandlerCtxBranch
    \/ HandlerInner
    \/ HandlerRecv

SpecHandler == InitHandler /\ [][NextHandler]_vars

\* The goroutine is scheduled, as every runnable goroutine is.
FairHandler ==
    /\ WF_vars(GoroutineReturn)
    /\ WF_vars(GoroutineSend)

SpecHandlerFair == InitHandler /\ [][NextHandler]_vars /\ FairHandler

\* ------------------------------------------------------------------ claims
\* The reference classification of one attempt's outcome: a transport error,
\* 429 and 5xx are retryable, 401 and the other 4xx terminal, 2xx a success.
Is2xx(out) == out \in 200..299
IsTerminalStatus(out) == out \in 400..499 /\ out # 429
IsRetryableOutcome(out) == out = 0 \/ out = 429 \/ out \in 500..599
RefClassify(out) ==
    IF IsRetryableOutcome(out) THEN "retry"
    ELSE IF IsTerminalStatus(out) THEN "terminal"
    ELSE IF Is2xx(out) THEN "success"
    ELSE "unclassified"
Returned == mpc = "done"
Attempts == Len(attemptLog)
Sleeps == Len(sleepLog)
CancelledKinds == {"cancelled_before_attempt", "cancelled_during_wait"}

\* C11: with no cancellation, a request whose first r attempts fail retryably
\* and whose next attempt succeeds has made exactly r + 1 attempts and slept
\* exactly r times, the i-th sleep (i from 0) lasting RetryDelay * 2^i, and
\* has returned success.
C11_RetryCount ==
    (/\ Returned
     /\ ~ctxDone
     /\ Attempts >= 1
     /\ Is2xx(attemptLog[Attempts].out)
     /\ mret.kind # "read_failed"
     /\ \A i \in 1..(Attempts - 1) : IsRetryableOutcome(attemptLog[i].out))
    => LET r == Cardinality({i \in 1..Attempts : IsRetryableOutcome(attemptLog[i].out)})
       IN  /\ r <= mcfg.MaxRetries
           /\ Attempts = r + 1
           /\ Sleeps = r
           /\ \A i \in 1..r :
                /\ sleepLog[i].after = i - 1
                /\ sleepLog[i].len = mcfg.RetryDelay * 2^(i - 1)
                /\ sleepLog[i].by = "timer"
                /\ attemptLog[i].attempt = i - 1
           /\ mret.kind = "success"

\* C11's case: a success after three retryable failures and three sleeps.
C11_Witness ==
    /\ Returned
    /\ ~ctxDone
    /\ mret.kind = "success"
    /\ Is2xx(mret.out)
    /\ Attempts = 4
    /\ Sleeps = 3
    /\ mcfg.RetryDelay = 2
    /\ sleepLog[3].len = 8

\* C12: MakeRequest never makes more than MaxRetries + 1 attempts; when every
\* attempt fails retryably and ctx is not cancelled it makes exactly
\* MaxRetries + 1 attempts, sleeps MaxRetries times, none of them after the
\* last attempt, and returns the retry-exhausted error that carries the last
\* attempt's error.
C12_AttemptBound ==
    /\ Attempts <= mcfg.MaxRetries + 1
    /\ (/\ Returned
        /\ ~ctxDone
        /\ \A i \in 1..Attempts : IsRetryableOutcome(attemptLog[i].out))
       => /\ Attempts = mcfg.MaxRetries + 1
          /\ Sleeps = mcfg.MaxRetries
          /\ \A i \in 1..Sleeps : sleepLog[i].after = i - 1 /\ sleepLog[i].by = "timer"
          /\ mret.kind = "exhausted"
          /\ mret.lastErr.attempt = mcfg.MaxRetries
          /\ mret.lastErr.out = attemptLog[Attempts].out

\* C12's case: every permitted attempt failed retryably, with no cancellation.
C12_Witness ==
    /\ Returned
    /\ ~ctxDone
    /\ mcfg.MaxRetries >= 2
    /\ mret.kind = "exhausted"
    /\ Attempts = mcfg.MaxRetries + 1
    /\ mret.lastErr.out = 503

\* C13: an attempt that yields a 2xx response, a 401 or another 4xx except 429
\* is the call's last: MakeRequest has returned that outcome, with no sleep
\* after it, whatever the attempt's number.
C13_NoRetryOnSuccessOrTerminal ==
    \A i \in 1..Attempts :
        (Is2xx(attemptLog[i].out) \/ IsTerminalStatus(attemptLog[i].out)) =>
            /\ i = Attempts
            /\ Returned
            /\ Sleeps = i - 1
            /\ mret.out = attemptLog[i].out
            /\ IsTerminalStatus(attemptLog[i].out) => mret.kind = "terminal"
            /\ Is2xx(attemptLog[i].out) => mret.kind \in {"success", "read_failed"}

\* C13's case: a terminal 404 on the third attempt ended the call at once.
C13_Witness ==
    /\ Returned
    /\ Attempts = 3
    /\ attemptLog[3].out = 404
    /\ mret.kind = "terminal"
    /\ Sleeps = 2

\* C14: every attempt's outcome is classified as the reference classification
\* classifies it, and only a 2xx response is returned as a success.
C14_ClassifiedAsReference ==
    /\ \A i \in 1..Attempts :
         attemptLog[i].cls # "pending" => attemptLog[i].cls = RefClassify(attemptLog[i].out)
    /\ mret.kind = "success" => Is2xx(mret.out)

\* C15 as stated: no attempt starts once ctx is cancelled; a cancellation
\* before an attempt fails the call at the pre-attempt check, and one during a
\* backoff sleep fails it with the cancellation error and no further attempt.
C15_NoAttemptAfterCancel ==
    /\ \A i \in 1..Attempts : ~attemptLog[i].late
    /\ ctxDone => Attempts = mCancelAt.attempts
    /\ (Returned /\ mCancelAt.pc = "check") => mret.kind = "cancelled_before_attempt"
    /\ (Returned /\ mCancelAt.pc = "sleep") => mret.kind \in CancelledKinds

\* C15, amended: once ctx is cancelled the pre-attempt check never passes
\* again, so the only attempt that can still start is the one whose check
\* had passed when ctx was cancelled; a cancellation before the check fails
\* the call there, one during a sleep fails it at the sleep or at the next
\* check, with no attempt in between; and the call returns.
C15_Amended ==
    /\ [](\A i \in 1..Attempts : attemptLog[i].late =>
             (mCancelAt.pc = "do" /\ i = mCancelAt.attempts + 1))
    /\ [](ctxDone => Attempts <= mCancelAt.attempts + (IF mCancelAt.pc = "do" THEN 1 ELSE 0))
    /\ []((Returned /\ mCancelAt.pc = "check") =>
             (mret.kind = "cancelled_before_attempt" /\ Attempts = mCancelAt.attempts))
    /\ []((Returned /\ mCancelAt.pc = "sleep") =>
             (mret.kind \in CancelledKinds /\ Attempts = mCancelAt.attempts
              /\ Sleeps = mCancelAt.sleeps))
    /\ (ctxDone ~> Returned)

\* C15's case: ctx was cancelled during the second backoff sleep and the call
\* returned the cancellation error from that sleep.
C15_Witness ==
    /\ Returned
    /\ mCancelAt.pc = "sleep"
    /\ mCancelAt.sleeps = 2
    /\ mret.kind = "cancelled_during_wait"
    /\ sleepLog[2].by = "ctx"
    /\ Attempts = 2

\* C16: whenever MakeRequest fails because ctx was cancelled (the error it
\* returns carries ctx.Err()), the error is one of the cancellation errors and
\* never the retry-exhausted error.
C16_CancelledIsDistinct ==
    (Returned /\ mret.wrapsCtx) => mret.kind \in CancelledKinds

InFlight == Cardinality({w \in Workers : wpc[w] = "fetching"})
Spawned == Cardinality({w \in Workers : wpc[w] # "none"})
BatchPages(b) == b.start..(b.start + b.count - 1)
RecordsOf(S) == UNION {Range(Elements(p)) : p \in S}
Batches == {batchLog[i] : i \in 1..Len(batchLog)}
ToRows(recs) == [i \in 1..Len(recs) |-> ToRow(recs[i])]

RECURSIVE OkBatchData(_)
\* The records of the batches of a log that returned without error, in order.
OkBatchData(log) ==
    IF log = <<>> THEN <<>>
    ELSE (IF Head(log).err = "none" THEN Head(log).data ELSE <<>>)
         \o OkBatchData(Tail(log))

\* C1: with concurrency limit k >= 1, a batch of n pages spawns exactly
\* min(k, n) workers and never has more than k FetchPage calls in flight.
C1_BoundedInFlight ==
    (dpc = "wait" /\ cfg.MaxParallelRequests >= 1) =>
        /\ InFlight <= cfg.MaxParallelRequests
        /\ Spawned = Min(cfg.MaxParallelRequests, batchSize)

\* C1 witness: a batch of n > k pages with k fetches in flight and work left.
C1_Witness ==
    /\ dpc = "wait"
    /\ cfg.MaxParallelRequests >= 1
    /\ batchSize > cfg.MaxParallelRequests
    /\ InFlight = cfg.MaxParallelRequests
    /\ pagesToFetch # <<>>

C6_AllFailure ==
    \A b \in Batches :
        /\ ~b.ctxDone =>
              /\ (b.err = "batchfailed") <=> (b.failures = b.count /\ b.count > 0)
              /\ b.err = "batchfailed" => b.data = <<>>
              /\ b.failures = Cardinality(b.failed)
        /\ (b.count > 0 /\ b.failed = BatchPages(b)) => b.err # "none"

\* C6 witness: a batch of two pages, both failed, returned BatchFailed.
C6_Witness ==
    \E b \in Batches :
        /\ ~b.ctxDone
        /\ b.count = 2
        /\ b.failed = BatchPages(b)
        /\ b.err = "batchfailed"

Exchanging == {c \in Callers : apc[c] \in {"attempt", "inflight", "sleep"}}

\* C2: at most one authentication exchange (attempts and backoff sleeps
\* included) is in progress, and it is run by the holder of muAuth.
C2_OneExchangeInFlight ==
    /\ Cardinality(Exchanging) <= 1
    /\ \A c \in Callers : apc[c] \in {"check", "attempt", "inflight", "sleep"} => muAuth = c

\* C2 witness: one caller sleeps between two attempts of the exchange while
\* another caller waits for the mutex.
C2_Witness ==
    \E c, d \in Callers :
        /\ apc[c] = "sleep"
        /\ apc[d] = "lock"

\* C3: while the last issued token is within its validity window no exchange
\* starts, and a call that returns a cached token returns the last issued one,
\* within its window; a call made after the window does not reuse it.
C3_TokenReuse ==
    /\ (issuedAt >= 0 /\ now < issuedAt + TokenTTL) => nExchSince = 0
    /\ \A c \in Callers :
         (ret[c].tok # 0 /\ ~ret[c].exchanged) =>
            /\ ret[c].tok = ret[c].last
            /\ ret[c].issued >= 0
            /\ ret[c].at < ret[c].issued + TokenTTL
    /\ \A c \in Callers :
         (ret[c].tok # 0 /\ ret[c].exchanged) =>
            /\ ret[c].tok = ret[c].last
            /\ ret[c].at = ret[c].issued

\* C3 witness: a call reused the first token within its window, and a call
\* made after the window performed the second exchange.
C3_Witness ==
    /\ nIssued = 2
    /\ \E c, d \in Callers :
         /\ ret[c].tok = 1
         /\ ~ret[c].exchanged
         /\ ret[d].tok = 2
         /\ ret[d].exchanged
         /\ ret[d].at >= TokenTTL

\* C4: while one caller runs the exchange every other caller that has called
\* is blocked on the mutex, and a caller that waited through a successful
\* exchange returns, within the window, the token that exchange issued and
\* performs no exchange of its own.
C4_WaitersReuse ==
    /\ \A c \in Exchanging : \A d \in Callers \ {c} : apc[d] \in {"idle", "lock"}
    /\ \A c \in Callers :
         (ret[c].waited.tok # 0 /\ ret[c].at < ret[c].waited.at + TokenTTL) =>
            /\ ret[c].tok = ret[c].waited.tok
            /\ ~ret[c].exchanged

\* C4 witness: a caller that waited through the exchange returned its token.
C4_Witness ==
    \E c \in Callers :
        /\ ret[c].waited.tok # 0
        /\ ret[c].tok = ret[c].waited.tok
        /\ ~ret[c].exchanged

SinkOps == {sinkLog[j].op : j \in 1..Len(sinkLog)}
Overwrites == {sinkLog[j] : j \in {k \in 1..Len(sinkLog) : sinkLog[k].op = "OverwriteSheetData"}}
ExpectedRows == ToRows(Elements(0) \o OkBatchData(batchLog))

\* C7: a batch that returns BatchFailed does not end the run: the driver goes
\* on with the page after the batch, every final write holds page 0's records
\* followed by the records of the batches that returned without error, and a
\* run that was not cancelled ends with that write issued.
C7_BatchErrorSkipped ==
    /\ \A i \in 1..Len(batchLog) :
         batchLog[i].err = "batchfailed" =>
            /\ IF i < Len(batchLog)
               THEN batchLog[i + 1].start = batchLog[i].start + batchLog[i].count
               ELSE currentPage = batchLog[i].start + batchLog[i].count
            /\ (dpc = "done" /\ ~ctxDone) =>
                  /\ Overwrites # {}
                  /\ result.kind \in {"ok", "sink_failed"}
    /\ batchLog # <<>> => \A o \in Overwrites : o.rows = ExpectedRows

\* C7 witness: a run whose first batch failed and whose second batch brought
\* records ended with a successful write.
C7_Witness ==
    /\ dpc = "done"
    /\ ~ctxDone
    /\ result.kind = "ok"
    /\ Len(batchLog) >= 2
    /\ batchLog[1].err = "batchfailed"
    /\ batchLog[2].err = "none"
    /\ batchLog[2].data # <<>>
    /\ sheet.rows = <<HeaderRow>> \o ExpectedRows

CancelledBatchesReturnCancelled ==
    \A b \in Batches : b.ctxDone => (b.err = "cancelled" /\ b.data = <<>>)

\* C8 as stated: once ctx is cancelled no worker starts a FetchPage, and a
\* batch that returns with ctx cancelled returns Cancelled and no records.
C8_NoFetchStartsAfterCancel ==
    /\ lateFetch = {}
    /\ CancelledBatchesReturnCancelled

\* C8 amended: once ctx is cancelled no worker passes the pre-fetch check, so a
\* FetchPage started afterwards is for a page whose check had passed before; a
\* batch that returns with ctx cancelled returns Cancelled and no records; and
\* a batch running with ctx cancelled returns (every worker exits).
C8_Amended ==
    /\ [](lateFetch \subseteq passedAtCancel)
    /\ [](\A w \in Workers :
            (ctxDone /\ wpc[w] = "call") => wpage[w] \in passedAtCancel)
    /\ []CancelledBatchesReturnCancelled
    /\ (ctxDone /\ dpc = "wait") ~> (dpc = "loop")

\* C8 witness: a cancelled batch returned Cancelled although a page had
\* succeeded and a fetch had started after the cancellation.
C8_Witness ==
    \E b \in Batches :
        /\ b.err = "cancelled"
        /\ b.ok # {}
        /\ lateFetch # {}

\* C9 as stated: when ctx is cancelled while a batch is in progress, the run
\* invokes no sink operation and returns the cancellation error.
C9_NoSinkAfterCancelledBatch ==
    cancelledAt \in {"wait", "joined"} =>
        /\ sinkLog = <<>>
        /\ dpc = "done" => result.kind = "cancelled"

\* C10 as stated: when page 0 reports zero pages or zero elements the run
\* fetches no further page, replaces the target by an empty row set, never
\* appends, and returns without error.
C10_EmptyReturnsOk ==
    (dpc = "done" /\ p0res = "ok"
        /\ (upstream.totalPages = 0 \/ upstream.totalElements = 0)) =>
        /\ \A p \in PageIndices \ {0} : fetchCount[p] = 0
        /\ "AppendRows" \notin SinkOps
        /\ sheet.state = "written"
        /\ sheet.rows = <<HeaderRow>>
        /\ result.kind = "ok"

\* C10 amended: when page 0 reports zero pages or zero elements the run fetches
\* no further page, calls the replace operation once with an empty row set,
\* never appends, and returns what the replace operation returns: no error,
\* with the target cleared and written with the header row alone, when the
\* sink calls succeed, and the sink's error otherwise.
C10_Amended ==
    (p0res = "ok" /\ dpc # "page0ret"
        /\ (upstream.totalPages = 0 \/ upstream.totalElements = 0)) =>
        /\ \A p \in PageIndices \ {0} : fetchCount[p] = 0
        /\ batchLog = <<>>
        /\ "AppendRows" \notin SinkOps
        /\ sinkLog # <<>>
        /\ sinkLog[1] = [op |-> "OverwriteSheetData", rows |-> <<>>]
        /\ Cardinality(Overwrites) = 1
        /\ dpc = "done" =>
              \/ /\ result.kind = "ok"
                 /\ SinkOps = {"OverwriteSheetData", "EnsureSheetExists", "Clear", "Update"}
                 /\ sheet = [exists |-> TRUE, state |-> "written", rows |-> <<HeaderRow>>]
              \/ /\ result.kind = "sink_failed"
                 /\ sheet.state \in {"stale", "cleared"}

\* C10 witness: page 0 reported zero pages with elements, and the run ended
\* with the target holding the header row alone.
C10_Witness ==
    /\ dpc = "done"
    /\ p0res = "ok"
    /\ upstream.totalPages = 0
    /\ upstream.totalElements > 0
    /\ result.kind = "ok"
    /\ sheet.rows = <<HeaderRow>>

\* The driver has returned; it has left the batch loop by the loop condition.
Finished == dpc = "done"
LoopCompleted ==
    \/ dpc \in {"write", "ensure", "clear", "update"}
    \/ dpc = "done" /\ result.kind \in {"ok", "sink_failed"}
HasBatches ==
    /\ p0res = "ok"
    /\ upstream.totalPages >= 2
    /\ upstream.totalElements # 0
BatchesWith(p) == {i \in 1..Len(batchLog) : p \in BatchPages(batchLog[i])}
NumOverwrites == Cardinality({j \in 1..Len(sinkLog) : sinkLog[j].op = "OverwriteSheetData"})

\* C17: the batches are issued in increasing order of start page, each
\* starting where the one before ended, so that no page is in two batches;
\* once the loop of a run with T >= 2 pages has ended every page of 1 .. T-1
\* is in exactly one batch, and in a run without cancellation and with at
\* least one worker each of those pages has been requested exactly once.
C17_BatchesPartition ==
    /\ \A i \in 1..Len(batchLog) :
         /\ batchLog[i].count >= 1
         /\ batchLog[i].start = (IF i = 1 THEN 1
                                 ELSE batchLog[i - 1].start + batchLog[i - 1].count)
    /\ \A p \in PageIndices : Cardinality(BatchesWith(p)) <= 1
    /\ (HasBatches /\ LoopCompleted) =>
         \A p \in 1..(upstream.totalPages - 1) :
            /\ Cardinality(BatchesWith(p)) = 1
            /\ (~ctxDone /\ cfg.MaxParallelRequests >= 1) => fetchCount[p] = 1

\* C17's case: four pages planned two per batch: pages 1 to 3 were covered by
\* two batches in a run that was not cancelled.
C17_Witness ==
    /\ Finished
    /\ ~ctxDone
    /\ upstream.totalPages = 4
    /\ cfg.MaxPagesPerBatch = 2
    /\ cfg.MaxParallelRequests >= 1
    /\ Len(batchLog) = 2
    /\ batchLog[2].start = 3
    /\ result.kind = "ok"

\* C18: every batch has size min(MaxPagesPerBatch, pages remaining at its
\* start), and no page index >= totalPages is requested from the API.
C18_BatchSizeIsMinRemaining ==
    /\ \A i \in 1..Len(batchLog) :
         batchLog[i].count = Min(cfg.MaxPagesPerBatch, upstream.totalPages - batchLog[i].start)
    /\ \A p \in PageIndices \ {0} : fetchCount[p] > 0 => p < upstream.totalPages

\* C19: a run that was not cancelled never returns an error because a page
\* fetch failed, page 0 included.
C19_FetchFailureNeverFailsRun ==
    (Finished /\ ~ctxDone) => result.kind # "page0_failed"

\* C20 as stated: a run that was not cancelled and whose FetchPage(0) returned
\* no error has invoked OverwriteSheetData exactly once, as its first sink
\* operation, and has never invoked AppendRows.
C20_OneOverwriteAfterLastBatch ==
    (Finished /\ cancelledAt = "never" /\ p0res \in {"ok", "nopage"}) =>
        /\ NumOverwrites = 1
        /\ sinkLog[1].op = "OverwriteSheetData"
        /\ "AppendRows" \notin SinkOps

\* C20, amended: OverwriteSheetData is invoked at most once, as the first
\* sink operation and never before the batch loop has ended, and AppendRows is
\* never invoked; a run that was not cancelled and whose page 0 came with its
\* page descriptor has invoked it exactly once, and a run whose page 0 came
\* without the descriptor returns an error and invokes no sink operation.
C20_Amended ==
    /\ NumOverwrites <= 1
    /\ sinkLog # <<>> =>
         /\ sinkLog[1].op = "OverwriteSheetData"
         /\ dpc \in {"ensure", "clear", "update", "done"}
         /\ p0res = "ok"
         /\ \A w \in Workers : wpc[w] = "none"
         /\ HasBatches => currentPage >= upstream.totalPages
         /\ HasBatches => \A p \in 1..(upstream.totalPages - 1) :
                             Cardinality(BatchesWith(p)) = 1
    /\ "AppendRows" \notin SinkOps
    /\ (Finished /\ cancelledAt = "never" /\ p0res = "ok") => NumOverwrites = 1
    /\ (Finished /\ p0res = "nopage") => (sinkLog = <<>> /\ result.kind = "no_page_info")

\* C20's case: a run of two batches that was never cancelled handed its rows
\* to OverwriteSheetData once, after the second batch.
C20_Witness ==
    /\ Finished
    /\ cancelledAt = "never"
    /\ p0res = "ok"
    /\ Len(batchLog) = 2
    /\ NumOverwrites = 1
    /\ result.kind = "ok"

\* ------------------------------------------------------------------ C21, C22
\* The pages of 1..T-1 the run asked for and did not obtain: the failed pages of
\* a batch that returned its records, every page of a batch that returned an
\* error.
UnavailablePages ==
    UNION {IF batchLog[i].err = "none" THEN batchLog[i].failed
           ELSE BatchPages(batchLog[i]) : i \in 1..Len(batchLog)}

\* C21: a run that returns without a cancellation error while a page could not
\* be fetched does not report plain success (the nil return the handler answers
\* with 200 and its fixed success message).
C21_NoSilentPartial ==
    (Finished /\ result.kind # "cancelled" /\ UnavailablePages # {})
        => result.kind # "ok"

\* C22: after OverwriteSheetData has returned, with success or with an error,
\* the target holds its complete previous content or the complete new content.
C22_OverwriteAtomic ==
    (Finished /\ "OverwriteSheetData" \in SinkOps)
        => \/ sheet.state = "stale"
           \/ sheet.state = "written" /\ sheet.rows = <<HeaderRow>> \o rows

\* ----------------------------------------------------------------------- C24
\* The positions of page p's records in seq.
BlockOf(seq, p) == {k \in 1..Len(seq) : seq[k][1] = p}

\* Page p's records are absent from seq, or they are one contiguous block of seq
\* in the order of the page's response.
InResponseOrder(seq, p) ==
    \/ BlockOf(seq, p) = {}
    \/ \E base \in 0..Len(seq) :
         /\ BlockOf(seq, p) = (base + 1)..(base + ElemCount(p))
         /\ \A i \in 1..ElemCount(p) : seq[base + i] = Elements(p)[i]

\* C24: in the records a batch returns, each fetched page's records are one
\* contiguous block in the order of the page's response, and a batch that
\* returns without error returns the records of every page it fetched.
C24_PageOrderKept ==
    /\ dpc = "joined" => \A p \in PageIndices : InResponseOrder(allData, p)
    /\ \A i \in 1..Len(batchLog) :
         /\ \A p \in PageIndices : InResponseOrder(batchLog[i].data, p)
         /\ batchLog[i].err = "none" =>
              \A p \in batchLog[i].ok :
                  ElemCount(p) > 0 => BlockOf(batchLog[i].data, p) # {}

\* C24 witness: a batch returned the records of two pages, the block of the
\* later page first, and one of the pages holds more than one record.
C24_Witness ==
    \E i \in 1..Len(batchLog) :
        LET data == batchLog[i].data
        IN  /\ batchLog[i].err = "none"
            /\ Len(data) >= 3
            /\ data[1][1] > data[Len(data)][1]

\* ----------------------------------------------------------------------- C25
\* The scenario: page 0 reports three pages that together hold every element,
\* the batch limit and the concurrency limit are at least the two pages left,
\* and no fetch failed and no batch was cancelled.
Scenario3Pages ==
    /\ upstream.totalPages = 3
    /\ upstream.totalElements = MaxElements
    /\ cfg.MaxPagesPerBatch >= 2
    /\ cfg.MaxParallelRequests >= 2
    /\ p0res = "ok"
    /\ \A i \in 1..Len(batchLog) :
         batchLog[i].err = "none" /\ batchLog[i].failed = {}

\* C25: in the scenario the driver issues exactly one batch, of size 2 over the
\* pages 1 and 2 with 2 workers, and the rows handed to the final write are all
\* the elements of the three pages. With the scenario's own numbers the planned
\* batch size is 2 and the number of workers is 2.
C25_ThreePageScenario ==
    /\ PlanBatchSize(3, 50) = 2
    /\ SpawnCount(2, 10) = 2
    /\ (Scenario3Pages /\ LoopCompleted) =>
          /\ Len(batchLog) = 1
          /\ batchLog[1].start = 1
          /\ batchLog[1].count = 2
          /\ batchLog[1].workers = 2
          /\ batchLog[1].ok = {1, 2}
          /\ Len(allEnrollments) = MaxElements
          /\ Len(allEnrollments) = ElemCount(0) + ElemCount(1) + ElemCount(2)
          /\ dpc # "write" => Len(rows) = MaxElements

\* C25 witness: the scenario's run has handed its rows to the final write, and
\* the last page held fewer records than the others.
C25_Witness ==
    /\ Scenario3Pages
    /\ dpc = "done"
    /\ result.kind = "ok"
    /\ Len(rows) = MaxElements
    /\ ElemCount(2) < ElemCount(1)

\* ----------------------------------------------------------------------- C26
\* A worker that can still count a failure or hand off a page result.
Running(w) == wpc[w] \in {"claim", "check", "call", "fetching", "returned"}

\* The orchestrator is past wg.Wait(): it drains the results, tests the context
\* and the counter, and returns.
PastJoin == dpc = "joined"

\* C26: once the orchestrator has begun draining the results or testing the
\* counter, every worker has finished: none can increment the counter or hand
\* off a page result any more, and the channel holds nothing undrained.
C26_ReadAfterJoin ==
    PastJoin => /\ \A w \in Workers : ~Running(w)
                /\ \A w \in Workers : wres[w] = "none"
                /\ dataChan = <<>>

\* C26 witness: the orchestrator is past the join of a batch in which two
\* workers ran, one page failed and was counted and one page was handed off.
C26_Witness ==
    /\ PastJoin
    /\ Cardinality({w \in Workers : wpc[w] = "exited"}) = 2
    /\ errorCount = 1
    /\ Len(allData) > 0

\* ----------------------------------------------------------------------- C27
\* The workers that hold a claimed page index.
Holding == {w \in Workers : wpc[w] \in {"check", "call", "fetching", "returned"}}

\* The range of the batch in progress.
CurrentRange == currentPage..(currentPage + batchSize - 1)

\* The page indices some batch was called with, the batch in progress included.
RangesSoFar ==
    UNION {BatchPages(batchLog[i]) : i \in 1..Len(batchLog)}
        \cup (IF dpc \in {"wait", "joined"} THEN CurrentRange ELSE {})

\* C27: each page index of a batch is claimed by at most one worker (the indices
\* held and the indices still queued are all different and all in the batch's
\* range), no index is passed to FetchPage twice and none outside the ranges
\* is fetched; a batch with at least one worker that returned with cancellation
\* never set passed each index of its range to FetchPage exactly once.
C27_EachPageOnce ==
    /\ \A v, w \in Holding : v # w => wpage[v] # wpage[w]
    /\ \A w \in Holding : /\ wpage[w] \in CurrentRange
                          /\ wpage[w] \notin Range(pagesToFetch)
    /\ \A j, k \in 1..Len(pagesToFetch) : j # k => pagesToFetch[j] # pagesToFetch[k]
    /\ dpc = "wait" => /\ Range(pagesToFetch) \subseteq CurrentRange
                       /\ okPages \cup failedPages \subseteq CurrentRange
    /\ \A p \in PageIndices : /\ fetchCount[p] <= 1
                              /\ (p # 0 /\ fetchCount[p] > 0) => p \in RangesSoFar
    /\ \A i \in 1..Len(batchLog) :
         LET b == batchLog[i]
         IN  /\ b.ok \cup b.failed \subseteq BatchPages(b)
             /\ (~b.ctxDone /\ b.workers >= 1) =>
                    /\ \A p \in BatchPages(b) : fetchCount[p] = 1
                    /\ b.ok \cup b.failed = BatchPages(b)

\* C27 witness: a batch of two pages run by two workers has returned with
\* cancellation never set, one page fetched with success and one with an error.
C27_Witness ==
    \E i \in 1..Len(batchLog) :
        LET b == batchLog[i]
        IN  /\ ~b.ctxDone
            /\ b.count = 2
            /\ b.workers = 2
            /\ b.ok # {}
            /\ b.failed # {}
            /\ \A p \in BatchPages(b) : fetchCount[p] = 1

\* ----------------------------------------------------------------------- C28
\* The page indices the workers of the batch in progress have claimed so far.
Claimed == batchSize - Len(pagesToFetch)

\* The pages whose records are in seq.
PagesIn(seq) == {seq[k][1] : k \in 1..Len(seq)}

\* The counter and the hand-offs against the claims, in every state.
CounterBounds ==
    /\ errorCount <= Cardinality(failedPages)
    /\ dpc = "wait" => /\ errorCount + Len(dataChan) <= Claimed
                       /\ Claimed <= batchSize
    /\ \A i \in 1..Len(batchLog) :
         batchLog[i].failures + Cardinality(PagesIn(batchLog[i].data))
             <= batchLog[i].count

\* The orchestrator tests the counter only when ctx.Err() is nil after the join:
\* the counter then is the number of pages whose FetchPage returned an error.
CounterAtRead ==
    /\ (PastJoin /\ ~ctxDone) => errorCount = Cardinality(failedPages)
    /\ \A i \in 1..Len(batchLog) :
         ~batchLog[i].ctxDone =>
             batchLog[i].failures = Cardinality(batchLog[i].failed)

\* C28: when the orchestrator reads the failure counter it equals the number of
\* pages whose FetchPage returned an error with cancellation not set; in every
\* state failures + hand-offs <= pages claimed <= page_count; and once the
\* cancellation signal is set no failure is counted any more.
C28_FailureCounter ==
    /\ [](CounterBounds /\ CounterAtRead)
    /\ [][ctxDone => errorCount' <= errorCount]_vars

\* C28 witness: one batch returned with cancellation not set and a counted
\* failure, and in a later batch a page failed under cancellation and the
\* counter stayed at zero.
C28_Witness ==
    /\ \E i \in 1..Len(batchLog) :
         ~batchLog[i].ctxDone /\ batchLog[i].failures = 1
    /\ PastJoin
    /\ ctxDone
    /\ failedPages # {}
    /\ errorCount = 0

\* ----------------------------------------------------------------------- C29
\* A page other than page 0 has been passed to FetchPage.
BatchFetched == \E p \in PageIndices : p # 0 /\ fetchCount[p] > 0

\* C29: batches run one at a time, after page 0. Before the page 0 fetch has
\* returned with its descriptor no worker exists and no batch page is fetched; a
\* worker exists only while the driver waits inside the one batch in progress,
\* and holds a page of that batch only; whenever the driver is about to call the
\* next batch, or has left the loop, every worker of the earlier batches has
\* exited and every earlier batch is in the log of returned batches.
C29_OneBatchAtATime ==
    /\ dpc \in {"start", "page0", "page0ret"} =>
           /\ \A w \in Workers : wpc[w] = "none"
           /\ ~BatchFetched
           /\ batchLog = <<>>
    /\ BatchFetched => p0res = "ok"
    /\ \A w \in Workers :
         /\ Running(w) => dpc = "wait"
         /\ wpc[w] # "none" => dpc \in {"wait", "joined"}
         /\ wpc[w] \in {"call", "fetching"} =>
                /\ wpage[w] \in CurrentRange
                /\ \A i \in 1..Len(batchLog) : wpage[w] \notin BatchPages(batchLog[i])
    /\ dpc \in {"callbatch", "wait", "joined"} =>
           /\ Len(batchLog) > 0 =>
                  currentPage = batchLog[Len(batchLog)].start
                                    + batchLog[Len(batchLog)].count
           /\ Len(batchLog) = 0 => currentPage = 1

\* C29 witness: a worker of the second batch is inside FetchPage, after the
\* first batch, run by two workers, has returned.
C29_Witness ==
    /\ Len(batchLog) = 1
    /\ batchLog[1].workers = 2
    /\ dpc = "wait"
    /\ \E w \in Workers : wpc[w] = "fetching" /\ wpage[w] = batchLog[1].start + batchLog[1].count

\* ----------------------------------------------------------------------- C30
\* The accumulator exists: the driver is past the creation of allEnrollments
\* from page 0's records, on the path that ends in the final write.
AccumulatorInUse ==
    /\ p0res = "ok"
    /\ ~ZeroCase(upstream.totalPages, upstream.totalElements)
    /\ dpc \notin {"start", "page0", "page0ret"}

\* The accumulator is handed to the final write.
AtFinalWrite == AccumulatorInUse /\ LoopCompleted

\* The number of times e occurs in seq.
Occurrences(seq, e) == Cardinality({k \in 1..Len(seq) : seq[k] = e})

\* C30: the run accumulator is append-only (a step never shortens it and never
\* changes what it already holds); while in use it holds page 0's records plus
\* the records returned by the batches that returned without error, and at the
\* final write the rows are made from exactly these records, as a multiset; a
\* batch that returned an error contributes nothing.
C30_AccumulatorAppendOnly ==
    /\ [][/\ Len(allEnrollments') >= Len(allEnrollments)
          /\ SubSeq(allEnrollments', 1, Len(allEnrollments)) = allEnrollments]_vars
    /\ [](AccumulatorInUse =>
             /\ Len(allEnrollments) = Len(Elements(0) \o OkBatchData(batchLog))
             /\ \A e \in Range(allEnrollments) \cup Range(Elements(0) \o OkBatchData(batchLog)) :
                    Occurrences(allEnrollments, e)
                        = Occurrences(Elements(0) \o OkBatchData(batchLog), e))
    /\ [](\A i \in 1..Len(batchLog) :
             batchLog[i].err # "none" =>
                 \A p \in BatchPages(batchLog[i]) : BlockOf(allEnrollments, p) = {})
    /\ []((AtFinalWrite /\ dpc # "write") => Len(rows) = Len(allEnrollments))

\* C30 witness: at the final write the accumulator holds page 0's records and
\* those of a batch that returned without error, and nothing of a later batch
\* that returned an error after one of its pages had been fetched with success.
C30_Witness ==
    /\ AtFinalWrite
    /\ dpc = "ensure"
    /\ \E i, j \in 1..Len(batchLog) :
         /\ batchLog[i].err = "none"
         /\ Len(batchLog[i].data) > 0
         /\ batchLog[j].err # "none"
         /\ \E p \in batchLog[j].ok : ElemCount(p) > 0
    /\ Len(allEnrollments) > ElemCount(0)

\* ----------------------------------------------------------------------- C23
\* The operation returned an error straight after its last remote call.
FailedAfterLastCall == spc = "done" /\ sret \in {"fatal", "lookup_failed"}

\* C23: every remote call of a sink operation follows MakeRequest's
\* classification: after a transport error, a 429 or a 5xx with attempts left
\* (and the context not cancelled) the operation does not give up, and after any
\* other 4xx it retries nothing and returns the error.
C23_SameClassification ==
    \A i \in 1..Len(slog) :
        /\ (/\ IsRetryableOutcome(slog[i].out.code)
            /\ slog[i].attempt < scfg.retryMaxAttempts
            /\ ~ctxDone)
               => ~(i = Len(slog) /\ FailedAfterLastCall)
        /\ IsTerminalStatus(slog[i].out.code)
               => (i = Len(slog) /\ FailedAfterLastCall)

\* ----------------------------------------------------------------------- C31
\* Caller c leaves the cache test of GetAuthToken in this step.
LeavesCheck(c) == apc[c] = "check" /\ apc'[c] # "check"

\* C31: a data request answered 401 leaves the cached token and its expiry
\* unchanged, and every GetAuthToken call whose cache test runs afterwards,
\* before the token's validity window has elapsed, returns that same token
\* without an authentication exchange.
C31_StaleTokenKept ==
    /\ [][rejected' # rejected =>
              /\ token' = token
              /\ tokenExpiry' = tokenExpiry]_vars
    /\ [][\A c \in Callers :
              (/\ LeavesCheck(c)
               /\ rejected.tok # 0
               /\ token = rejected.tok
               /\ now < tokenExpiry)
                  => /\ apc'[c] = "idle"
                     /\ ret'[c].err = "none"
                     /\ ret'[c].tok = rejected.tok
                     /\ ~ret'[c].exchanged
                     /\ nExchSince' = nExchSince]_vars

\* C31 witness: the caller whose data request was answered 401 has called
\* GetAuthToken again and got the rejected token from the cache, with no
\* exchange.
C31_Witness ==
    /\ rejected.tok # 0
    /\ ret[rejected.by].tok = rejected.tok
    /\ ret[rejected.by].err = "none"
    /\ ~ret[rejected.by].exchanged
    /\ token = rejected.tok

\* ----------------------------------------------------------------------- C32
\* The ways an authentication exchange fails: cancellation, a terminal HTTP
\* error, a request error after the retries, an empty token string, a response
\* that does not decode.
FailureKinds == {"cancelled", "terminal", "exhausted", "empty", "badjson"}

\* Caller c's call of GetAuthToken returns in this step.
Returns(c) == apc[c] \notin {"idle", "lock"} /\ apc'[c] = "idle"

\* C32: a call whose exchange fails returns an error and no token, leaves the
\* cached token and expiry exactly as they were and releases muAuth, which it
\* held; the token and the expiry change only together, in the step in which a
\* successful exchange returns the new token.
C32_FailureKeepsCache ==
    /\ [][\A c \in Callers :
              (Returns(c) /\ ret'[c].err # "none") =>
                  /\ ret'[c].err \in FailureKinds
                  /\ ret'[c].tok = 0
                  /\ token' = token
                  /\ tokenExpiry' = tokenExpiry
                  /\ muAuth = c
                  /\ muAuth' = 0]_vars
    /\ [][(token' # token \/ tokenExpiry' # tokenExpiry) =>
              /\ token' # token
              /\ tokenExpiry' # tokenExpiry
              /\ tokenExpiry' = now + TokenTTL
              /\ \E c \in Callers :
                    /\ Returns(c)
                    /\ ret'[c].err = "none"
                    /\ ret'[c].exchanged
                    /\ ret'[c].tok = token']_vars

\* C32 witness: a token is cached and has expired, a call's exchange failed on
\* a response that does not decode, and the cache still holds the old token and
\* the mutex is free.
C32_Witness ==
    \E c \in Callers :
        /\ ret[c].err = "badjson"
        /\ token # 0
        /\ token = ret[c].last
        /\ now >= tokenExpiry
        /\ muAuth = 0
        /\ apc[c] = "idle"

\* ----------------------------------------------------------------------- C37
\* The calls that have passed the cache test.
PastCheck == ncalls - Cardinality({c \in Callers : apc[c] \in {"lock", "check"}})

\* C37: while the auth server has never answered with a token, nothing is
\* cached: every call that passed the cache test started its own exchange, the
\* exchanges run one at a time while the other callers wait for the mutex, every
\* call that returned returned an error after its own exchange, and an exchange
\* that fails on retryable errors ends after MaxRetries + 1 attempts.
C37_FailureNotCached ==
    /\ [](nIssued = 0 =>
             /\ token = 0
             /\ nExchSince = PastCheck
             /\ Cardinality(Exchanging) <= 1
             /\ \A c \in Exchanging :
                    /\ muAuth = c
                    /\ attempt[c] <= MaxRetries
                    /\ \A e \in Callers \ {c} : apc[e] \in {"idle", "lock"}
             /\ \A c \in Callers :
                    ret[c] # NoReturn =>
                        /\ ret[c].err \in FailureKinds
                        /\ ret[c].exchanged
                        /\ ret[c].tok = 0)
    /\ [][\A c \in Callers :
              (Returns(c) /\ ret'[c].err = "exhausted") => attempt[c] = MaxRetries]_vars

\* C37 witness: the auth server has only failed, every caller has called and
\* each call ended with the error that follows the last retry, after as many
\* exchanges as there were calls.
C37_Witness ==
    /\ nIssued = 0
    /\ ncalls >= NumCallers
    /\ nExchSince = ncalls
    /\ \A c \in Callers : apc[c] = "idle" /\ ret[c].err = "exhausted"

\* ----------------------------------------------------------------------- C35
\* The workers that hold a fetched page and are at the hand-off.
AtHandOff == {w \in Workers : wpc[w] = "returned" /\ wres[w] = "ok"}

\* C35: the hand-off never blocks, because the results already handed off and
\* those waiting to be handed off never exceed the page count the buffer was
\* made for; and a batch whose FetchPage calls all return is joined, with or
\* without cancellation.
C35_BatchTerminates ==
    /\ [](dpc = "wait" =>
             /\ Len(dataChan) + Cardinality(AtHandOff) <= batchSize
             /\ \A w \in AtHandOff : Len(dataChan) < batchSize)
    /\ (dpc = "wait") ~> (dpc = "joined")

\* C35 witness: a batch of two pages with two workers is joined after the
\* context was cancelled, one page handed off and one worker gone at the
\* cancelled hand-off or check.
C35_Witness ==
    /\ dpc = "joined"
    /\ ctxDone
    /\ batchSize = 2
    /\ Cardinality({w \in Workers : wpc[w] = "exited"}) = 2
    /\ Len(allData) > 0
    /\ Cardinality(okPages) + Cardinality(failedPages) = 2

\* ----------------------------------------------------------------------- C36
\* The batches the driver has called so far.
Issued == Len(batchLog) + (IF dpc \in {"wait", "joined"} THEN 1 ELSE 0)

\* The driver is in its batch loop.
InLoop == dpc \in {"loop", "callbatch", "wait", "joined"}

\* C36: with MaxPagesPerBatch >= 1 the batch loop terminates. In the loop the
\* planned batch size is at least 1; the start page never decreases and is
\* strictly larger after every batch that returns, a failed one included; each
\* batch starts below totalPages, so the pages left, totalPages - currentPage,
\* bound the batches still to come and at most totalPages - 1 batches are
\* called.
C36_LoopTerminates ==
    /\ [](/\ InLoop => batchSize >= 1 /\ currentPage >= 1 + Len(batchLog)
          /\ Issued > 0 => Issued <= upstream.totalPages - 1
          /\ \A i \in 1..Len(batchLog) : batchLog[i].start < upstream.totalPages)
    /\ [][/\ currentPage' >= currentPage
          /\ Len(batchLog') > Len(batchLog) => currentPage' > currentPage]_vars

\* C36 witness: the first batch failed with all its pages, the driver went on
\* to a later start page, and the run has called totalPages - 1 batches.
C36_Witness ==
    /\ Len(batchLog) = upstream.totalPages - 1
    /\ Len(batchLog) >= 2
    /\ batchLog[1].err = "batchfailed"
    /\ batchLog[2].start > batchLog[1].start

\* ----------------------------------------------------------------------- C38
\* C38: with a concurrency limit of 0 or less a batch with pages spawns no
\* worker and fetches no page; unless the context is cancelled it returns no
\* records and no error, with a failure count of 0: the batch is lost without
\* being counted as failed.
C38_NoWorkersBatchLost ==
    /\ SpawnCount(2, 0) = 0
    /\ SpawnCount(2, -1) < 1
    /\ cfg.MaxParallelRequests <= 0 =>
          /\ \A w \in Workers : wpc[w] = "none"
          /\ \A p \in PageIndices : p # 0 => fetchCount[p] = 0
          /\ \A i \in 1..Len(batchLog) :
               LET b == batchLog[i]
               IN  /\ b.count > 0
                   /\ b.workers = 0
                   /\ b.ok = {}
                   /\ b.failed = {}
                   /\ b.failures = 0
                   /\ b.data = <<>>
                   /\ ~b.ctxDone => b.err = "none"

\* C38 witness: with a concurrency limit of 0 a run over several pages ended
\* in success with the rows of page 0 alone, every batch having returned
\* nothing and no error.
C38_Witness ==
    /\ cfg.MaxParallelRequests = 0
    /\ Finished
    /\ result.kind = "ok"
    /\ upstream.totalPages >= 3
    /\ Len(batchLog) >= 1
    /\ \A i \in 1..Len(batchLog) : batchLog[i].err = "none" /\ batchLog[i].count > 0
    /\ Len(rows) = ElemCount(0)
    /\ ElemCount(1) > 0

\* ----------------------------------------------------------------------- C33
\* C33: when several calls of EnsureSheetExists for one sheet name run and
\* the remote service fails no request, at most one create request is issued
\* and every call that returned returned success.
C33_AtMostOneCreate ==
    (~etransient /\ ~ctxDone) =>
        /\ ecreates <= 1
        /\ \A c \in EnsureCallers : epc[c] = "done" => eret[c] = "nil"

\* ----------------------------------------------------------------------- C34
\* The steps of the incremental-append driver itself.
AppendDriverStep ==
    AppendSetup \/ AppendFetch0 \/ AppendAfterPage0 \/ AppendLoop \/ BatchStart
        \/ BatchJoin \/ AppendBatchReturn \/ AppendSleep

C39_SendNeverBlocks ==
    /\ [](hgo = "send" => ENABLED GoroutineSend)
    /\ [](Len(errChan) <= 1)
    /\ (dpc = "done") ~> (hgo = "exited")

\* C39 witness: the handler took the cancellation branch, found nothing in
\* errChan and returned; the fetch returned afterwards and the goroutine's
\* send completed with nobody left to receive.
C39_Witness ==
    /\ hpc = "returned"
    /\ hbranch = "ctx"
    /\ hrecv = "none"
    /\ hgo = "exited"
    /\ errChan = <<FetchErr(result)>>

\* ----------------------------------------------------------------------- C40
\* C40: the handler responds 200 only if the fetch returned no error and 500
\* only if it returned an error; on the cancellation branch it responds 408
\* unless it received an error, so never 200, also when the fetch had already
\* returned without error.
C40_ResponseMatchesFetch ==
    /\ hresp \in {0, 200, 408, 500}
    /\ (hresp # 0) <=> (hpc = "returned")
    /\ hresp = 200 => dpc = "done" /\ result.kind = "ok" /\ hbranch = "result"
    /\ hresp = 500 => dpc = "done" /\ result.kind \notin {"ok", "none"}
                        /\ hrecv = result.kind
    /\ (hpc = "returned" /\ hbranch = "ctx") =>
          /\ hresp # 200
          /\ hresp = 408 <=> hrecv \in {"none", "nil"}
          /\ hrecv # "none" => dpc = "done" /\ hrecv = FetchErr(result)

\* C40 witness: the fetch returned without error and its nil was in errChan
\* when the handler took the cancellation branch: the handler received the
\* nil and responded 408.
C40_Witness ==
    /\ hpc = "returned"
    /\ hbranch = "ctx"
    /\ result.kind = "ok"
    /\ hrecv = "nil"
    /\ hresp = 408

====
